---- MODULE Spec2Model ----
(***************************************************************************)
(* Model of the cloud-storage upload pipeline (api.FileUpload), of the     *)
(* envelope crypter (encryption.SymmetricCrypter, AesGcmProvider, Vault)   *)
(* and of the sqlite stores behind them.                                   *)
(*                                                                         *)
(* Byte strings are sequences of numbers 0..255.  Go strings that carry    *)
(* bytes (DEC.Value, DecryptResponse.Plaintext) are byte sequences too.    *)
(* Each request runs as one task; a task's steps are the points where the  *)
(* handler touches the database, the disk or the writer.  Calls that touch *)
(* no shared state (the KMS, the random source, the request body) are part *)
(* of the step that follows them in the code.                              *)
(***************************************************************************)
EXTENDS Integers, Sequences, FiniteSets, TLC

(***************************************************************************)
(* Bounds of the model.                                                    *)
(***************************************************************************)
\* UploadConfig.MaxUploadSize, also AesGcmProvider.maxFileSize (main passes
\* the same configured value to both).
MaxUploadSize == 2
\* The clock runs from 0 to MaxTime ticks.
MaxTime == 3
\* Clock ticks per second: the DEC table stores whole seconds.
TicksPerSec == 2
\* SymmetricCrypter.decRotationPeriod, in ticks.
RotationPeriod == 2
\* The failures of the database, the disk, the KMS, the random source and
\* the connection that one run injects, at most.
MaxFaults == 2
\* Reads made on a limiter that is read on its own.
MaxReads == 4

\* The requests that run (each one request), the ids uuid.New() draws from,
\* and the seeds of the nonces the random source returns.
Tasks == {"t1", "t2"}
Ids == {"x", "y"}
NonceSeeds == {1}
\* File names of the file part, as bytes ("n1").
FileNames == {<<110, 49>>}

(***************************************************************************)
(* Program constants.                                                      *)
(***************************************************************************)
KeySize == 32
NonceSize == 12
TagSize == 16
StatusOK == 200
StatusCreated == 201
StatusBadRequest == 400
StatusNotFound == 404
StatusUnsupportedMediaType == 415
StatusUnprocessableEntity == 422
StatusServiceUnavailable == 503

NoId == "none"
Nil == "nil"

Min(a, b) == IF a < b THEN a ELSE b

\* A byte string given by its elements, as a tuple.
Bytes(f) == f \o <<>>

RECURSIVE SumSeq(_)
SumSeq(s) == IF s = <<>> THEN 0 ELSE Head(s) + SumSeq(Tail(s))

(***************************************************************************)
(* encoding/binary.LittleEndian.  Ids and sizes of the model are below     *)
(* 2^31, so bytes 5..8 of an encoded value are zero; a decoded value with  *)
(* a non-zero high byte is outside the model's range and reads as TooBig.  *)
(***************************************************************************)
TooBig == -1

PutUint64BE(v) ==
    Bytes([i \in 1..8 |-> IF i >= 5 THEN (v \div (256 ^ (8 - i))) % 256 ELSE 0])

PutUint64(v) ==
    Bytes([i \in 1..8 |-> IF i <= 4 THEN (v \div (256 ^ (i - 1))) % 256 ELSE 0])

Uint64(b) ==
    IF b[5] # 0 \/ b[6] # 0 \/ b[7] # 0 \/ b[8] # 0 \/ b[4] >= 128
    THEN TooBig
    ELSE b[1] + 256 * b[2] + 65536 * b[3] + 16777216 * b[4]

\* The file-size field as a client fills it: 8 little-endian bytes of a
\* length below 65536.
contentLenBytes(v) == <<v % 256, (v \div 256) % 256, 0, 0, 0, 0, 0, 0>>

(***************************************************************************)
(* encoding/base64 (StdEncoding) over bytes.  A character is its index     *)
(* 0..63 in the alphabet; 64 is the padding character.                     *)
(***************************************************************************)
Pad == 64

ByteAt(b, j) == IF j <= Len(b) THEN b[j] ELSE 0

Base64Encode(b) ==
    LET groups == (Len(b) + 2) \div 3
        Char(i) ==
            LET g == (i - 1) \div 4
                k == (i - 1) % 4
                v == 65536 * ByteAt(b, 3 * g + 1) + 256 * ByteAt(b, 3 * g + 2)
                         + ByteAt(b, 3 * g + 3)
            IN  IF (k = 2 /\ 3 * g + 2 > Len(b)) \/ (k = 3 /\ 3 * g + 3 > Len(b))
                THEN Pad
                ELSE (v \div (64 ^ (3 - k))) % 64
    IN  Bytes([i \in 1..(4 * groups) |-> Char(i)])

Base64Decode(s) ==
    LET groups == Len(s) \div 4
        pads == IF groups = 0 THEN 0
                ELSE (IF s[Len(s)] = Pad THEN 1 ELSE 0)
                     + (IF s[Len(s) - 1] = Pad THEN 1 ELSE 0)
        Sextet(c) == IF c = Pad THEN 0 ELSE c
        Byte(j) ==
            LET g == (j - 1) \div 3
                k == (j - 1) % 3
                v == 262144 * Sextet(s[4 * g + 1]) + 4096 * Sextet(s[4 * g + 2])
                         + 64 * Sextet(s[4 * g + 3]) + Sextet(s[4 * g + 4])
            IN  (v \div (256 ^ (2 - k))) % 256
    IN  Bytes([j \in 1..(3 * groups - pads) |-> Byte(j)])

(***************************************************************************)
(* The Vault transit engine behind encryption.Vault.  The server is not    *)
(* part of the repository: it is modelled by its contract, an opaque token *)
(* "vault:v1:..." from which decrypt recovers the base64 text it was given *)
(* (each character is mirrored, so a token never equals its plaintext).    *)
(* The JSON envelope around the base64 text carries it unchanged.          *)
(***************************************************************************)
VaultPrefix == <<118, 97, 117, 108, 116, 58, 118, 49, 58>>

VaultServerEncrypt(text) ==
    VaultPrefix \o [i \in 1..Len(text) |-> IF text[i] = Pad THEN Pad ELSE 63 - text[i]]

IsVaultToken(tok) ==
    /\ Len(tok) >= Len(VaultPrefix)
    /\ SubSeq(tok, 1, Len(VaultPrefix)) = VaultPrefix

VaultServerDecrypt(tok) ==
    LET body == SubSeq(tok, Len(VaultPrefix) + 1, Len(tok))
    IN  Bytes([i \in 1..Len(body) |-> IF body[i] = Pad THEN Pad ELSE 63 - body[i]])

\* Vault.MakeEncryptRequest: base64 of the plaintext goes to the server,
\* response.Data.Ciphertext comes back.
MakeEncryptRequest(plaintext) == VaultServerEncrypt(Base64Encode(plaintext))

\* Vault.MakeDecryptRequest: the server answers 200 only for a token of its
\* own; the base64 text of the answer is decoded.
MakeDecryptRequest(ciphertext) ==
    IF IsVaultToken(ciphertext)
    THEN [err |-> Nil, plaintext |-> Base64Decode(VaultServerDecrypt(ciphertext))]
    ELSE [err |-> "kms", plaintext |-> <<>>]

(***************************************************************************)
(* crypto/cipher AES-GCM as AesGcmProvider uses it.  The cipher is the Go  *)
(* standard library's; the model keeps its interface: Seal is a function   *)
(* of key, nonce and plaintext, its output is the plaintext length plus a  *)
(* 16-byte tag, and Open returns the plaintext only when key, nonce,       *)
(* ciphertext and tag are the ones of the Seal.                            *)
(***************************************************************************)
KeyStream(key, nonce, i) ==
    (key[((i - 1) % Len(key)) + 1] + nonce[((i - 1) % Len(nonce)) + 1] + 31 * i) % 256

GcmTag(key, nonce, body) ==
    Bytes([j \in 1..TagSize |->
        ( key[((j - 1) % Len(key)) + 1] + 3 * key[((j + 15) % Len(key)) + 1]
          + 5 * nonce[((j - 1) % Len(nonce)) + 1]
          + SumSeq(Bytes([i \in 1..Len(body) |-> body[i] * (i + j)]))
          + 7 * Len(body) + j ) % 256])

\* aes.NewCipher accepts keys of 16, 24 or 32 bytes.
ValidKey(key) == Len(key) \in {16, 24, 32}

GcmSeal(key, nonce, plaintext) ==
    LET body == Bytes([i \in 1..Len(plaintext) |->
                          (plaintext[i] + KeyStream(key, nonce, i)) % 256])
    IN  body \o GcmTag(key, nonce, body)

GcmOpenNoTag(key, nonce, ciphertext) ==
    IF Len(ciphertext) < TagSize
    THEN [err |-> "open", plaintext |-> <<>>]
    ELSE LET body == SubSeq(ciphertext, 1, Len(ciphertext) - TagSize)
         IN  [err |-> Nil,
              plaintext |-> Bytes([i \in 1..Len(body) |->
                               (body[i] + 256 - KeyStream(key, nonce, i)) % 256])]

GcmOpen(key, nonce, ciphertext) ==
    IF Len(ciphertext) < TagSize
    THEN [err |-> "open", plaintext |-> <<>>]
    ELSE LET body == SubSeq(ciphertext, 1, Len(ciphertext) - TagSize)
             tag == SubSeq(ciphertext, Len(ciphertext) - TagSize + 1, Len(ciphertext))
         IN  IF tag = GcmTag(key, nonce, body)
             THEN [err |-> Nil,
                   plaintext |-> Bytes([i \in 1..Len(body) |->
                                    (body[i] + 256 - KeyStream(key, nonce, i)) % 256])]
             ELSE [err |-> "open", plaintext |-> <<>>]

(***************************************************************************)
(* The random source (crypto/rand.Reader in production): Read fills the    *)
(* whole buffer with the bytes of the seed it draws.                       *)
(***************************************************************************)
RandBytes(seed, n) == Bytes([i \in 1..n |-> (97 * seed + 13 * i) % 256])

(***************************************************************************)
(* The file part of the request as an io.Reader, and the declared-size     *)
(* limiter around it.  A part reader holds the bytes not yet delivered;    *)
(* chunk is the most one Read delivers, eofWithLast says whether the Read  *)
(* that delivers the last bytes also returns io.EOF (multipart.Part does   *)
(* when the boundary is already buffered), failAt is the number of bytes   *)
(* after which Read fails (-1: never), as when the client disconnects or   *)
(* the MaxBytesReader cuts the body.                                       *)
(***************************************************************************)
EOF == "EOF"

PartRead(rd, plen) ==
    IF rd.failAt = 0
    THEN [data |-> <<>>, err |-> "io", rd |-> rd]
    ELSE IF rd.data = <<>>
    THEN [data |-> <<>>, err |-> EOF, rd |-> rd]
    ELSE LET avail == IF rd.failAt > 0 THEN Min(Len(rd.data), rd.failAt) ELSE Len(rd.data)
             k == Min(Min(plen, rd.chunk), avail)
             rest == SubSeq(rd.data, k + 1, Len(rd.data))
         IN  [data |-> SubSeq(rd.data, 1, k),
              err |-> IF rest = <<>> /\ rd.eofWithLast THEN EOF ELSE Nil,
              rd |-> [rd EXCEPT !.data = rest,
                                !.failAt = IF rd.failAt > 0 THEN rd.failAt - k ELSE rd.failAt]]

newLimitedReader(reader, limit) == [reader |-> reader, remaing |-> limit]

LimitedReadWhole(lr, plen) ==
    IF lr.remaing <= 0
    THEN [data |-> <<>>, err |-> "tooBig", lr |-> lr]
    ELSE LET r == PartRead(lr.reader, plen)
         IN  [data |-> r.data, err |-> r.err,
              lr |-> [reader |-> r.rd, remaing |-> lr.remaing - Len(r.data)]]

\* limitedReader.Read with a buffer of plen bytes.
LimitedRead(lr, plen) ==
    IF lr.remaing <= 0
    THEN [data |-> <<>>, err |-> "tooBig", lr |-> lr]
    ELSE LET r == PartRead(lr.reader, IF plen > lr.remaing THEN lr.remaing ELSE plen)
         IN  [data |-> r.data, err |-> r.err,
              lr |-> [reader |-> r.rd, remaing |-> lr.remaing - Len(r.data)]]

\* io.ReadFull(r, data) with len(data) = buflen: reads until the buffer is
\* full or a Read returns an error.
RECURSIVE ReadLoop(_, _, _)
ReadLoop(lr, got, buflen) ==
    IF Len(got) >= buflen
    THEN [data |-> got, err |-> Nil]
    ELSE LET r == LimitedRead(lr, buflen - Len(got))
             all == got \o r.data
         IN  IF r.err = Nil
             THEN ReadLoop(r.lr, all, buflen)
             ELSE [data |-> all,
                   err |-> IF Len(all) >= buflen THEN Nil
                           ELSE IF Len(all) > 0 /\ r.err = EOF THEN "ErrUnexpectedEOF"
                           ELSE r.err]

ReadFull(lr, buflen) == ReadLoop(lr, <<>>, buflen)

\* AesGcmProvider.Encrypt(r, key, rs): draw is the result of rs.Read(nonce).
AesGcmEncryptZeroNonce(lr, key, draw) ==
    IF ~ValidKey(key)
    THEN [err |-> "cipher", ciphertext |-> <<>>, nonce |-> <<>>, plaintext |-> <<>>]
    ELSE IF draw.err # Nil
    THEN [err |-> "rand", ciphertext |-> <<>>, nonce |-> <<>>, plaintext |-> <<>>]
    ELSE LET rd == ReadFull(lr, MaxUploadSize)
             zero == Bytes([i \in 1..NonceSize |-> 0])
         IN  IF rd.err \in {Nil, "ErrUnexpectedEOF"}
             THEN [err |-> Nil, ciphertext |-> GcmSeal(key, zero, rd.data),
                   nonce |-> zero, plaintext |-> rd.data]
             ELSE [err |-> rd.err, ciphertext |-> <<>>, nonce |-> zero,
                   plaintext |-> <<>>]

AesGcmEncrypt(lr, key, draw) ==
    IF ~ValidKey(key)
    THEN [err |-> "cipher", ciphertext |-> <<>>, nonce |-> <<>>, plaintext |-> <<>>]
    ELSE IF draw.err # Nil
    THEN [err |-> "rand", ciphertext |-> <<>>, nonce |-> <<>>, plaintext |-> <<>>]
    ELSE LET rd == ReadFull(lr, MaxUploadSize)
         IN  IF rd.err \in {Nil, "ErrUnexpectedEOF"}
             THEN [err |-> Nil, ciphertext |-> GcmSeal(key, draw.bytes, rd.data),
                   nonce |-> draw.bytes, plaintext |-> rd.data]
             ELSE [err |-> rd.err, ciphertext |-> <<>>, nonce |-> draw.bytes,
                   plaintext |-> <<>>]

(***************************************************************************)
(* The decs table (SqliteDb) and the clock.  A row is                      *)
(* [id, value, created]: created is whole seconds (dbaccess.Time.Value).   *)
(***************************************************************************)
\* The zero time.Time of a DEC{} that no row was scanned into.
ZeroTime == -1
\* time.Since saturates at the largest Duration for the zero time.
MaxDuration == 1000000

ZeroDec == [id |-> 0, value |-> <<>>, created |-> ZeroTime]

\* dbaccess.Time.Value: time.Time(t).Unix()
Unix(t) == t \div TicksPerSec

\* time.Since(time.Time(dec.CreationTime)), the row scanned by Time.Scan
Since(created, clock) ==
    IF created = ZeroTime THEN MaxDuration ELSE clock - created * TicksPerSec

IsStaleLoose(d, clock) == Since(d.created, clock) > RotationPeriod + TicksPerSec

IsStaleEager(d, clock) == Since(d.created, clock) >= RotationPeriod

IsStale(d, clock) == Since(d.created, clock) > RotationPeriod

Rows(table) == {table[i] : i \in 1..Len(table)}

\* SELECT * FROM decs ORDER BY creationTime DESC LIMIT 1: SQL leaves the
\* order of rows with equal creationTime open.
NewestRows(table) ==
    {r \in Rows(table) : \A q \in Rows(table) : q.created <= r.created}

FirstDecId(table) == 1

\* The rowid sqlite assigns to an INTEGER PRIMARY KEY: one more than the
\* largest in the table.
NextDecId(table) ==
    IF table = <<>> THEN 1
    ELSE 1 + CHOOSE m \in {r.id : r \in Rows(table)} :
                 \A r \in Rows(table) : r.id <= m

PutDEC(table, row) == <<row>>

\* INSERT INTO decs(value, creationTime) values(?,?)
AddDEC(table, row) == Append(table, row)

\* SELECT * FROM decs WHERE id = ?
GetDEC(table, id) ==
    IF \E r \in Rows(table) : r.id = id
    THEN [err |-> Nil, dec |-> CHOOSE r \in Rows(table) : r.id = id]
    ELSE [err |-> "sql.ErrNoRows", dec |-> ZeroDec]

(***************************************************************************)
(* SymmetricCrypter.DecryptAndCopy(w, r) on a reader rd that holds the     *)
(* bytes rd.data and delivers at most rd.chunk of them to a Read (os.File  *)
(* and bytes.Reader deliver all that is asked for while they have it).     *)
(* The first Read fills keyIdBytes and only its error is looked at; the    *)
(* second fills nonce and nothing of its result is looked at; the rest is  *)
(* read to the end by sep.Decrypt.  fault injects the failure of a         *)
(* collaborator: "db", "kms", "write", or "none".  n1 and n2 are the bytes *)
(* the two Reads delivered, getDec and kms say whether c.db.GetDEC and     *)
(* c.es.MakeDecryptRequest were called.                                    *)
(***************************************************************************)
DecryptAndCopyStreaming(rd, table, fault) ==
    LET data == rd.data
        n1 == Min(Min(8, rd.chunk), Len(data))
        keyIdBytes == SubSeq(data, 1, n1) \o [i \in 1..(8 - n1) |-> 0]
        got == GetDEC(table, Uint64(keyIdBytes))
        resp == MakeDecryptRequest(got.dec.value)
        n2 == Min(Min(NonceSize, rd.chunk), Len(data) - n1)
        nonceBytes == SubSeq(data, n1 + 1, n1 + n2) \o [i \in 1..(NonceSize - n2) |-> 0]
        opened == GcmOpen(resp.plaintext, nonceBytes, SubSeq(data, n1 + n2 + 1, Len(data)))
        streamed == GcmOpenNoTag(resp.plaintext, nonceBytes,
                                 SubSeq(data, n1 + n2 + 1, Len(data)))
        Err(e, k) == [err |-> e, out |-> <<>>, n1 |-> n1, n2 |-> IF k THEN n2 ELSE 0,
                      getDec |-> e # EOF, kms |-> k]
    IN  IF n1 = 0 THEN Err(EOF, FALSE)
        ELSE IF fault = "db" THEN Err("db", FALSE)
        ELSE IF got.err # Nil THEN Err(got.err, FALSE)
        ELSE IF fault = "kms" \/ resp.err # Nil THEN Err("kms", TRUE)
        ELSE IF ~ValidKey(resp.plaintext) THEN Err("cipher", TRUE)
        ELSE IF opened.err # Nil
        THEN [Err(opened.err, TRUE) EXCEPT !.out = streamed.plaintext]
        ELSE IF fault = "write" THEN Err("write", TRUE)
        ELSE [err |-> Nil, out |-> opened.plaintext, n1 |-> n1, n2 |-> n2,
              getDec |-> TRUE, kms |-> TRUE]

DecryptAndCopyFrom(rd, table, fault) ==
    LET data == rd.data
        n1 == Min(Min(8, rd.chunk), Len(data))
        keyIdBytes == SubSeq(data, 1, n1) \o [i \in 1..(8 - n1) |-> 0]
        got == GetDEC(table, Uint64(keyIdBytes))
        resp == MakeDecryptRequest(got.dec.value)
        n2 == Min(Min(NonceSize, rd.chunk), Len(data) - n1)
        nonceBytes == SubSeq(data, n1 + 1, n1 + n2) \o [i \in 1..(NonceSize - n2) |-> 0]
        opened == GcmOpen(resp.plaintext, nonceBytes, SubSeq(data, n1 + n2 + 1, Len(data)))
        Err(e, k) == [err |-> e, out |-> <<>>, n1 |-> n1, n2 |-> IF k THEN n2 ELSE 0,
                      getDec |-> e # EOF, kms |-> k]
    IN  IF n1 = 0 THEN Err(EOF, FALSE)
        ELSE IF fault = "db" THEN Err("db", FALSE)
        ELSE IF got.err # Nil THEN Err(got.err, FALSE)
        ELSE IF fault = "kms" \/ resp.err # Nil THEN Err("kms", TRUE)
        ELSE IF ~ValidKey(resp.plaintext) THEN Err("cipher", TRUE)
        ELSE IF opened.err # Nil THEN Err(opened.err, TRUE)
        ELSE IF fault = "write" THEN Err("write", TRUE)
        ELSE [err |-> Nil, out |-> opened.plaintext, n1 |-> n1, n2 |-> n2,
              getDec |-> TRUE, kms |-> TRUE]

\* DecryptAndCopy over a reader that delivers all a Read asks for while it
\* has it.
DecryptAndCopy(data, table, fault) ==
    DecryptAndCopyFrom([data |-> data, chunk |-> NonceSize], table, fault)

(***************************************************************************)
(* The request a client sends, as far as FileUpload looks at it.           *)
(*   multipart : Content-Type parses to multipart/form-data                *)
(*   readerOk  : r.MultipartReader() succeeds                              *)
(*   part1     : form name of the first part ("none": NextPart fails)      *)
(*   size      : what part.Read(value) delivers for the file-size part     *)
(*   part2     : the second part is a file, a plain field, or missing      *)
(***************************************************************************)
SizeFields ==
    {[data |-> contentLenBytes(v), err |-> e] : v \in 0..(MaxUploadSize + 1), e \in {Nil, EOF}}
    \cup {[data |-> Bytes([i \in 1..8 |-> 255]), err |-> Nil],
          [data |-> <<1, 0, 0, 0, 0, 0, 0, 128>>, err |-> Nil],
          [data |-> <<1, 0, 0, 0, 1, 0, 0, 0>>, err |-> Nil],
          [data |-> <<1>>, err |-> EOF],
          [data |-> <<>>, err |-> EOF],
          [data |-> <<>>, err |-> "io"]}

GoodRequest(field, name) ==
    [multipart |-> TRUE, readerOk |-> TRUE, part1 |-> "file-size", size |-> field,
     part2 |-> "file", filename |-> name]

\* Well-formed requests with every size field, and the requests that are
\* malformed in one place.
Requests ==
    {GoodRequest(f, n) : f \in SizeFields, n \in FileNames}
    \cup {[GoodRequest([data |-> contentLenBytes(1), err |-> Nil], n) EXCEPT !.multipart = FALSE] :
             n \in FileNames}
    \cup {[GoodRequest([data |-> contentLenBytes(1), err |-> Nil], n) EXCEPT !.readerOk = FALSE] :
             n \in FileNames}
    \cup {[GoodRequest([data |-> contentLenBytes(1), err |-> Nil], n) EXCEPT !.part1 = p1] :
             n \in FileNames, p1 \in {"other", "none"}}
    \cup {[GoodRequest([data |-> contentLenBytes(1), err |-> Nil], n) EXCEPT !.part2 = p2] :
             n \in FileNames, p2 \in {"field", "none"}}

\* part.FileName(): empty for a part that is not a file.
FileName(rq) == IF rq.part2 = "file" THEN rq.filename ELSE <<>>

FileSizeLow32(field) ==
    LET value == field.data \o [i \in 1..(8 - Len(field.data)) |-> 0]
    IN  value[1] + 256 * value[2] + 65536 * value[3] + 16777216 * (value[4] % 128)

\* int64(binary.LittleEndian.Uint64(value)) with value the 8-byte buffer the
\* Read filled from its start.
FileSizeOf(field) ==
    LET value == field.data \o [i \in 1..(8 - Len(field.data)) |-> 0]
    IN  IF value[8] >= 128 THEN -1
        ELSE IF Uint64(value) = TooBig THEN MaxUploadSize + 1
        ELSE Uint64(value)

\* The status FileUpload answers before it allocates anything; 0 when the
\* request passes every gate up to the file name.
RequestStatus(rq) ==
    IF ~rq.multipart THEN StatusUnsupportedMediaType
    ELSE IF ~rq.readerOk THEN StatusUnprocessableEntity
    ELSE IF rq.part1 = "none" THEN StatusUnprocessableEntity
    ELSE IF rq.part1 # "file-size" THEN StatusUnprocessableEntity
    ELSE IF ~(rq.size.err = EOF /\ Len(rq.size.data) > 0) /\ rq.size.err # Nil
         THEN StatusUnprocessableEntity
    ELSE IF FileSizeOf(rq.size) > MaxUploadSize \/ FileSizeOf(rq.size) <= 0
         THEN StatusUnprocessableEntity
    ELSE IF rq.part2 = "none" THEN StatusUnprocessableEntity
    ELSE IF FileName(rq) = <<>> THEN StatusUnprocessableEntity
    ELSE 0

\* The text http.Error writes at the gate that turns the request away.
RequestError(rq) ==
    IF ~rq.multipart THEN "unsupported media type"
    ELSE IF ~rq.readerOk THEN "Invalid multipart form"
    ELSE IF rq.part1 = "none" THEN "Invalid multipart form"
    ELSE IF rq.part1 # "file-size" THEN "file-size is not provided"
    ELSE IF ~(rq.size.err = EOF /\ Len(rq.size.data) > 0) /\ rq.size.err # Nil
         THEN "Invalid file-size"
    ELSE IF FileSizeOf(rq.size) > MaxUploadSize \/ FileSizeOf(rq.size) <= 0
         THEN "file-size is not in valid range"
    ELSE IF rq.part2 = "none" THEN "Invalid multipart form"
    ELSE IF FileName(rq) = <<>> THEN "Expected file but found different form part"
    ELSE ""

PlainFileName(filename) == filename

\* SymmetricCrypter.EncryptFileName
EncryptFileName(filename) == MakeEncryptRequest(filename)

\* The bodies of the file part and the ways its reader delivers them.
Content == <<65, 66, 67, 68, 69, 70, 71, 72>>

Bodies == {SubSeq(Content, 1, n) : n \in 0..(MaxUploadSize + 1)}

PartReaders ==
    [data : Bodies, eofWithLast : BOOLEAN, failAt : {-1}, chunk : {1, MaxUploadSize + 1}]
    \cup {[data |-> SubSeq(Content, 1, MaxUploadSize), eofWithLast |-> FALSE,
           failAt |-> f, chunk |-> 1] : f \in {0, 1}}

\* The inputs of a run: every request and every reader, or the few that
\* the runs with several requests draw from (a request that declares one
\* byte and one that is not multipart; a one-byte body and a longer one).
Wide == [requests |-> Requests, readers |-> PartReaders, seeds |-> NonceSeeds]

Narrow ==
    [requests |-> {rq \in Requests :
                      \/ ~rq.multipart
                      \/ RequestStatus(rq) = 0 /\ rq.size = [data |-> contentLenBytes(1), err |-> Nil]},
     readers |-> {rd \in PartReaders :
                     /\ rd.eofWithLast /\ rd.chunk = 1 /\ rd.failAt = -1
                     /\ Len(rd.data) \in {1, 2}},
     seeds |-> NonceSeeds]

\* The inputs of the runs that look at the nonces: the random source has
\* two values to return, and may return either to any call.
TwoSeeds == {1, 2}

Pair == [Narrow EXCEPT !.seeds = TwoSeeds]

\* The inputs of the runs that look at the length of the file name: the
\* requests of Narrow and one whose file name is one byte longer than the
\* longest name the handler is to accept.
MaxFileNameLen == 255

LongName == Bytes([i \in 1..(MaxFileNameLen + 1) |-> 110])

Long == [Narrow EXCEPT !.requests =
            @ \cup {GoodRequest([data |-> contentLenBytes(1), err |-> Nil], LongName)}]

(***************************************************************************)
(* State.                                                                  *)
(***************************************************************************)
VARIABLES
    pc,         \* task -> where its handler stands
    up,         \* task -> FileUpload's variables: fileSize, encFileName, strId,
                \*         path (NoId: ""), err of the inner function
    enc,        \* task -> the EncryptAndCopy call: its variables dec and key
                \*         (<<>>: nil), the calls it made on its collaborators
                \*         and the error it returned
    status,     \* task -> the status answered (0: none yet)
    calls,      \* task -> what the request did to the stores: the id it
                \*         inserted, the body it stored, its compensation
    files,      \* the files table: generatedName -> row
    disk,       \* the storage directory: name -> file
    decs,       \* the decs table, in insertion order
    now,        \* the clock, in ticks
    clobbered,  \* tasks whose blob another task's os.Remove unlinked
    faults,     \* the failures injected so far
    rs,         \* the keys the random source has returned so far
    dres,       \* the last DecryptAndCopy: its input and its result
    dl,         \* the FileDownload handler: where it stands, its request,
                \*         its variables, the response writer and the calls
                \*         it has made, in order
    rot,        \* the damage done to a stored blob behind the server's back
    lim         \* a limitedReader read on its own: the reader, the stream
                \*         it was built over, its limit, the bytes delivered
                \*         so far and the result of the last Read

vars == <<pc, up, enc, status, calls, files, disk, decs, now, clobbered, faults, rs, dres, lim, dl, rot>>

UpZero == [fileSize |-> 0, encFileName |-> <<>>, strId |-> NoId, path |-> NoId, err |-> Nil]
EncZero == [dec |-> ZeroDec, key |-> <<>>, newest |-> "none", seen |-> ZeroDec, age |-> 0,
            draws |-> <<>>, kmsEnc |-> <<>>, kmsDec |-> <<>>, addDec |-> <<>>,
            body |-> <<>>, sealed |-> <<>>, writes |-> <<>>, err |-> "none"]
\* The body of an answer that has none: w.WriteHeader alone was called.
NoBody == [id |-> NoId, file_name |-> <<>>]

\* No request read yet.
NoRq == [multipart |-> FALSE, readerOk |-> FALSE, part1 |-> "none",
         size |-> [data |-> <<>>, err |-> Nil], part2 |-> "none", filename |-> <<>>]

\* rq: the request the handler read; msg: the text http.Error wrote at a
\* gate; encName: c.EncryptFileName was called; bodies: the KMS response
\* bodies the request's calls have left open; drawn: the nonce rs.Read
\* returned to Encrypt; used: the key and the nonce gcm.Seal was called with.
NoCalls == [id |-> NoId, body |-> <<>>, newest |-> "none", minted |-> FALSE, resp |-> NoBody,
            rq |-> NoRq, msg |-> "", encName |-> FALSE, bodies |-> 0,
            drawn |-> <<>>, used |-> <<>>,
            wrote |-> 0, removeFile |-> <<>>, removeFileOk |-> FALSE,
            osRemove |-> <<>>, osRemoveOk |-> FALSE]
NoRow == [exists |-> FALSE, name |-> <<>>, by |-> NoId]
NoFile == [exists |-> FALSE, data |-> <<>>, by |-> NoId]
NoDres == [name |-> NoId, data |-> <<>>, fault |-> "none", err |-> Nil, out |-> <<>>,
           chunk |-> 0, n1 |-> 0, n2 |-> 0, getDec |-> FALSE, kms |-> FALSE]

\* The http.ResponseWriter before anything is written: no status line, no
\* body; broken once a Write to the client has failed.
NoResponse == [status |-> 0, body |-> <<>>, broken |-> FALSE]

NoDlRq == [json |-> FALSE, lenOk |-> FALSE, bodyOk |-> FALSE, jsonOk |-> FALSE, id |-> NoId]

NoDl == [pc |-> "idle", rq |-> NoDlRq, fileName |-> <<>>, file |-> NoId,
         w |-> NoResponse, log |-> <<>>, err |-> "none", out |-> <<>>, read |-> <<>>,
         fault |-> FALSE, after |-> {}, bodies |-> 0, raced |-> FALSE]

NoRot == [name |-> NoId, was |-> <<>>, kind |-> "none", at |-> 0]

\* A DEK row an earlier run of the server left in the table.
OldDec == [id |-> 1, value |-> MakeEncryptRequest(RandBytes(1, KeySize)), created |-> 0]

NoLim == [lr |-> newLimitedReader([data |-> <<>>, eofWithLast |-> FALSE,
                                    failAt |-> -1, chunk |-> 1], 0),
          src |-> <<>>, limit |-> 0, out |-> <<>>, pre |-> 0, data |-> <<>>,
          err |-> Nil, reads |-> 0]

Idle ==
    /\ pc = [t \in Tasks |-> "idle"]
    /\ up = [t \in Tasks |-> UpZero]
    /\ enc = [t \in Tasks |-> EncZero]
    /\ status = [t \in Tasks |-> 0]
    /\ calls = [t \in Tasks |-> NoCalls]
    /\ files = [x \in Ids |-> NoRow]
    /\ disk = [x \in Ids |-> NoFile]
    /\ decs \in {<<>>, <<OldDec>>}
    /\ now = 0
    /\ clobbered = {}
    /\ faults = 0
    /\ rs = 1
    /\ dres = NoDres

Init == Idle /\ lim = NoLim /\ dl = NoDl /\ rot = NoRot

(***************************************************************************)
(* The files table and the storage directory.                              *)
(***************************************************************************)
NoViolation(table, generatedName) == FALSE

\* INSERT INTO files: generatedName is UNIQUE, a taken name is refused
\* with sqlite3.ErrConstraintUnique.
UniqueViolation(table, generatedName) == table[generatedName].exists

\* DELETE FROM files WHERE generatedName = ?
RemoveFile(table, generatedName) == [table EXCEPT ![generatedName] = NoRow]

\* os.Remove(path) that succeeds.
OsRemove(dir, p) == [dir EXCEPT ![p] = NoFile]

(***************************************************************************)
(* FileUpload, one action per step of the handler.  When the handler       *)
(* returns its variables are gone: the task keeps the status it answered.  *)
(***************************************************************************)
\* A step that injects n failures.
Charge(n) ==
    /\ faults + n <= MaxFaults
    /\ faults' = faults + n

\* http.Error / w.WriteHeader followed by the handler's return.
Respond(t, code) ==
    /\ status' = [status EXCEPT ![t] = code]
    /\ pc' = [pc EXCEPT ![t] = "done"]
    /\ up' = [up EXCEPT ![t] = UpZero]
    /\ enc' = [enc EXCEPT ![t] = EncZero]

\* The inner function returns e: the handler goes on to compensate.
Fail(t, e) ==
    /\ up' = [up EXCEPT ![t].err = e]
    /\ pc' = [pc EXCEPT ![t] = "failed"]
    /\ UNCHANGED status

\* Vault.makeRequest when it fails: http.DefaultClient.Do returned an error
\* and there is no response ("do"), or the server answered another status
\* than 200 ("status") and makeRequest returns nil with the error, leaving
\* resp.Body to no caller.  The number of bodies the call leaves open.
KmsFailures == {"do", "status"}

makeRequest(how) == IF how = "status" THEN 1 ELSE 0

\* EncryptAndCopy returns e, and the inner function with it.
OpaqueKind(e) == "other"

\* What errors.As(err, &tbfe) finds in the error the crypter returns: the
\* cause, wrapped with %w by Encrypt and by EncryptAndCopy.
WrappedKind(e) == IF e = "tooBig" THEN "tooBig" ELSE "other"

EncFail(t, frame, e) ==
    /\ enc' = [enc EXCEPT ![t] = [frame EXCEPT !.err = e]]
    /\ Fail(t, WrappedKind(e))

StartEncFirst(t, requests) ==
    /\ pc[t] = "idle"
    /\ \E rq \in requests, kmsOk \in BOOLEAN :
       \E code \in {RequestStatus(rq)} :
         IF ~kmsOk
         THEN /\ Respond(t, StatusServiceUnavailable) /\ Charge(1)
              /\ calls' = [calls EXCEPT ![t].rq = rq, ![t].encName = TRUE]
         ELSE IF code # 0
         THEN /\ Respond(t, code) /\ Charge(0)
              /\ calls' = [calls EXCEPT ![t].rq = rq, ![t].encName = TRUE,
                                        ![t].msg = RequestError(rq)]
         ELSE /\ Charge(0)
              /\ up' = [up EXCEPT ![t].fileSize = FileSizeOf(rq.size),
                                  ![t].encFileName = EncryptFileName(FileName(rq))]
              /\ pc' = [pc EXCEPT ![t] = "alloc"]
              /\ calls' = [calls EXCEPT ![t].rq = rq, ![t].encName = TRUE]
              /\ UNCHANGED <<enc, status>>
    /\ UNCHANGED <<files, disk, decs, now, clobbered, rs, dres, lim, dl, rot>>

\* Lines 65-137: the gates on the request, each answering with http.Error
\* and returning, then c.EncryptFileName.
Start(t, requests) ==
    /\ pc[t] = "idle"
    /\ \E rq \in requests, kmsOk \in BOOLEAN, how \in KmsFailures :
       \E code \in {RequestStatus(rq)} :
         IF code # 0
         THEN /\ Respond(t, code) /\ Charge(0)
              /\ calls' = [calls EXCEPT ![t].rq = rq, ![t].msg = RequestError(rq)]
         ELSE IF ~kmsOk
         THEN /\ Respond(t, StatusServiceUnavailable) /\ Charge(1)
              /\ calls' = [calls EXCEPT ![t].rq = rq, ![t].encName = TRUE,
                                        ![t].bodies = @ + makeRequest(how)]
         ELSE /\ Charge(0)
              /\ up' = [up EXCEPT ![t].fileSize = FileSizeOf(rq.size),
                                  ![t].encFileName = EncryptFileName(FileName(rq))]
              /\ pc' = [pc EXCEPT ![t] = "alloc"]
              /\ calls' = [calls EXCEPT ![t].rq = rq, ![t].encName = TRUE]
              /\ UNCHANGED <<enc, status>>
    /\ UNCHANGED <<files, disk, decs, now, clobbered, rs, dres, lim, dl, rot>>

\* Lines 141-159: uuid.New() and db.AddFile; a taken generatedName loops.
AddFile(t) ==
    /\ pc[t] = "alloc"
    /\ \E id \in Ids, dbOk \in BOOLEAN :
         IF UniqueViolation(files, id)
         THEN /\ up' = [up EXCEPT ![t].strId = id]
              /\ UNCHANGED <<pc, enc, status, calls, files, faults>>
         ELSE IF ~dbOk
         THEN /\ Respond(t, StatusServiceUnavailable)
              /\ Charge(1)
              /\ UNCHANGED <<calls, files>>
         ELSE /\ Charge(0)
              /\ files' = [files EXCEPT ![id] =
                              [exists |-> TRUE, name |-> up[t].encFileName, by |-> t]]
              /\ up' = [up EXCEPT ![t].strId = id, ![t].path = id]
              /\ calls' = [calls EXCEPT ![t].id = id]
              /\ pc' = [pc EXCEPT ![t] = "create"]
              /\ UNCHANGED <<enc, status>>
    /\ UNCHANGED <<disk, decs, now, clobbered, rs, dres, lim, dl, rot>>

SkipCreate(t) ==
    /\ pc[t] = "create"
    /\ pc' = [pc EXCEPT ![t] = "getnewest"]
    /\ UNCHANGED <<up, enc, status, calls, files, disk, decs, now, clobbered, faults,
                   rs, dres, lim, dl, rot>>

\* Lines 161-170: filepath.Abs (a failure leaves path empty) and os.Create,
\* which truncates a file already at the path.
Create(t) ==
    /\ pc[t] = "create"
    /\ \E outcome \in {"ok", "abs", "create"} :
         IF outcome = "abs"
         THEN /\ Charge(1)
              /\ up' = [up EXCEPT ![t].path = NoId, ![t].err = "create"]
              /\ pc' = [pc EXCEPT ![t] = "failed"]
              /\ UNCHANGED <<status, disk>>
         ELSE IF outcome = "create"
         THEN Fail(t, "create") /\ Charge(1) /\ UNCHANGED disk
         ELSE /\ Charge(0)
              /\ disk' = [disk EXCEPT ![up[t].path] =
                               [exists |-> TRUE, data |-> <<>>, by |-> t]]
              /\ pc' = [pc EXCEPT ![t] = "getnewest"]
              /\ UNCHANGED <<up, status>>
    /\ UNCHANGED <<enc, calls, files, decs, now, clobbered, rs, dres, lim, dl, rot>>

(***************************************************************************)
(* SymmetricCrypter.EncryptAndCopy, called by the handler at line 173.     *)
(***************************************************************************)
\* Lines 170-172 and 192-194: GetNewestDEC and the choice of the branch.
GetNewest(t) ==
    /\ pc[t] = "getnewest"
    /\ \E dbOk \in BOOLEAN, row \in NewestRows(decs) \cup {ZeroDec} :
       \E res \in {IF ~dbOk THEN [err |-> "db", dec |-> ZeroDec]
                   ELSE IF decs = <<>> THEN [err |-> "NoRows", dec |-> ZeroDec]
                   ELSE [err |-> Nil, dec |-> row]} :
       \E frame \in {[enc[t] EXCEPT !.newest = res.err, !.seen = res.dec,
                                     !.age = Since(res.dec.created, now)]} :
         /\ (dbOk /\ decs # <<>>) => row \in NewestRows(decs)
         /\ Charge(IF dbOk THEN 0 ELSE 1)
         /\ IF res.err = "NoRows" \/ IsStale(res.dec, now)
            THEN /\ enc' = [enc EXCEPT ![t] = [frame EXCEPT !.dec = res.dec]]
                 /\ pc' = [pc EXCEPT ![t] = "mint"]
                 /\ UNCHANGED <<up, status>>
            ELSE IF res.err # Nil
            THEN EncFail(t, frame, "db")
            ELSE /\ enc' = [enc EXCEPT ![t] = [frame EXCEPT !.dec = res.dec]]
                 /\ pc' = [pc EXCEPT ![t] = "seal"]
                 /\ UNCHANGED <<up, status>>
    /\ UNCHANGED <<calls, files, disk, decs, now, clobbered, rs, dres, lim, dl, rot>>

MintRowFirst(t) ==
    /\ pc[t] = "mint"
    /\ \E fault \in {"none", "rand", "kms", "db"}, how \in KmsFailures :
       \E k \in {RandBytes(rs + 1, KeySize)} :
       \E wrapped \in {MakeEncryptRequest(k)} :
       \E f1 \in {[enc[t] EXCEPT !.draws = Append(@, KeySize)]} :
       \E f2 \in {[f1 EXCEPT !.kmsEnc = Append(@, k)]} :
       \E f3 \in {[f2 EXCEPT !.addDec = Append(@, wrapped)]} :
       \E row \in {[id |-> NextDecId(decs), value |-> wrapped, created |-> Unix(now)]} :
         IF fault = "rand"
         THEN EncFail(t, f1, fault) /\ Charge(1) /\ UNCHANGED <<decs, rs, calls>>
         ELSE IF fault = "kms"
         THEN /\ EncFail(t, f2, fault) /\ Charge(1) /\ rs' = rs + 1
              /\ decs' = AddDEC(decs, [row EXCEPT !.value = <<>>])
              /\ calls' = [calls EXCEPT ![t].bodies = @ + makeRequest(how)]
         ELSE IF fault = "db"
         THEN /\ EncFail(t, f3, fault) /\ Charge(1) /\ rs' = rs + 1
              /\ UNCHANGED <<decs, calls>>
         ELSE /\ Charge(0)
              /\ rs' = rs + 1
              /\ decs' = AddDEC(decs, row)
              /\ enc' = [enc EXCEPT ![t] = [f3 EXCEPT !.dec = row, !.key = k]]
              /\ pc' = [pc EXCEPT ![t] = "seal"]
              /\ UNCHANGED <<up, status, calls>>
    /\ UNCHANGED <<files, disk, now, clobbered, dres, lim, dl, rot>>

\* Lines 175-191: draw a key, wrap it, store the new DEC.
Mint(t) ==
    /\ pc[t] = "mint"
    /\ \E fault \in {"none", "rand", "kms", "db"}, how \in KmsFailures :
       \E k \in {RandBytes(rs + 1, KeySize)} :
       \E wrapped \in {MakeEncryptRequest(k)} :
       \E f1 \in {[enc[t] EXCEPT !.draws = Append(@, KeySize)]} :
       \E f2 \in {[f1 EXCEPT !.kmsEnc = Append(@, k)]} :
       \E f3 \in {[f2 EXCEPT !.addDec = Append(@, wrapped)]} :
       \E row \in {[id |-> NextDecId(decs), value |-> wrapped, created |-> Unix(now)]} :
         IF fault = "rand"
         THEN EncFail(t, f1, fault) /\ Charge(1) /\ UNCHANGED <<decs, rs, calls>>
         ELSE IF fault = "kms"
         THEN /\ EncFail(t, f2, fault) /\ Charge(1) /\ rs' = rs + 1 /\ UNCHANGED decs
              /\ calls' = [calls EXCEPT ![t].bodies = @ + makeRequest(how)]
         ELSE IF fault = "db"
         THEN /\ EncFail(t, f3, fault) /\ Charge(1) /\ rs' = rs + 1
              /\ UNCHANGED <<decs, calls>>
         ELSE /\ Charge(0)
              /\ rs' = rs + 1
              /\ decs' = AddDEC(decs, row)
              /\ enc' = [enc EXCEPT ![t] = [f3 EXCEPT !.dec = row, !.key = k]]
              /\ pc' = [pc EXCEPT ![t] = "seal"]
              /\ UNCHANGED <<up, status, calls>>
    /\ UNCHANGED <<files, disk, now, clobbered, dres, lim, dl, rot>>

\* The three w.Write calls of lines 215-234 on the chunks id, nonce and
\* ciphertext: wr.call = 0 when all succeed, else the call that fails and
\* the bytes it wrote before failing.
WriteOutcomes ==
    {[call |-> 0, n |-> 0], [call |-> 1, n |-> 0], [call |-> 3, n |-> 1]}

WritesOf(chunks, wr) ==
    IF wr.call = 0 THEN chunks
    ELSE [i \in 1..wr.call |->
             IF i < wr.call THEN chunks[i] ELSE SubSeq(chunks[i], 1, wr.n)] \o <<>>

RECURSIVE Flatten(_)
Flatten(ws) == IF ws = <<>> THEN <<>> ELSE Head(ws) \o Flatten(Tail(ws))

\* Bytes reach the directory entry only while it is still the file this
\* task created (an unlinked file takes the writes with it).
DiskAfterWrite(t, bytes) ==
    IF disk[up[t].path].exists /\ disk[up[t].path].by = t
    THEN [disk EXCEPT ![up[t].path].data = @ \o bytes]
    ELSE disk

\* Lines 196-239: unwrap the key if none was minted, sep.Encrypt (which
\* reads the part through the limiter) and the writes of the frame.
Seal(t, readers, seeds) ==
    /\ pc[t] = "seal"
    /\ \E fault \in {"none", "kms", "rand"}, how \in KmsFailures :
       (fault = "kms" => enc[t].key = <<>>) /\
       \E resp \in {IF enc[t].key # <<>> THEN [err |-> Nil, plaintext |-> enc[t].key]
                    ELSE IF fault = "kms" THEN [err |-> "kms", plaintext |-> <<>>]
                    ELSE MakeDecryptRequest(enc[t].dec.value)} :
       \E f1 \in {IF enc[t].key # <<>> THEN enc[t]
                  ELSE [enc[t] EXCEPT !.kmsDec = Append(@, enc[t].dec.value)]} :
       \E f2 \in {IF ValidKey(resp.plaintext)
                  THEN [f1 EXCEPT !.draws = Append(@, NonceSize), !.key = resp.plaintext]
                  ELSE [f1 EXCEPT !.key = resp.plaintext]} :
         /\ IF resp.err # Nil
            THEN /\ EncFail(t, f1, "kms") /\ Charge(1) /\ UNCHANGED disk
                 /\ calls' = [calls EXCEPT ![t].bodies =
                                  IF fault = "kms" THEN @ + makeRequest(how)
                                  ELSE @ + makeRequest("status")]
            ELSE \E seed \in seeds, rd \in readers :
                 \E n \in {(IF fault = "none" THEN 0 ELSE 1)
                             + (IF rd.failAt = -1 THEN 0 ELSE 1)} :
                 \E draw \in {IF fault = "rand" THEN [err |-> "rand", bytes |-> <<>>]
                              ELSE [err |-> Nil, bytes |-> RandBytes(seed, NonceSize)]} :
                 \E e \in {AesGcmEncrypt(newLimitedReader(rd, up[t].fileSize),
                                         resp.plaintext, draw)} :
                   IF e.err # Nil
                   THEN /\ EncFail(t, [f2 EXCEPT !.body = rd.data], e.err)
                        /\ Charge(n) /\ UNCHANGED disk
                        /\ calls' = [calls EXCEPT ![t].drawn =
                                         IF ValidKey(resp.plaintext) THEN draw.bytes
                                         ELSE <<>>]
                   ELSE \E wr \in WriteOutcomes :
                        \E ws \in {WritesOf(<<PutUint64(enc[t].dec.id), e.nonce,
                                              e.ciphertext>>, wr)} :
                        \E f3 \in {[f2 EXCEPT !.body = rd.data, !.sealed = e.plaintext,
                                              !.writes = ws]} :
                          /\ disk' = DiskAfterWrite(t, Flatten(ws))
                          /\ Charge(n + (IF wr.call = 0 THEN 0 ELSE 1))
                          /\ calls' = [calls EXCEPT ![t].drawn = draw.bytes,
                                                    ![t].used = <<resp.plaintext, e.nonce>>]
                          /\ IF wr.call = 0
                             THEN /\ enc' = [enc EXCEPT ![t] = [f3 EXCEPT !.err = Nil]]
                                  /\ pc' = [pc EXCEPT ![t] = "sealed"]
                                  /\ UNCHANGED <<up, status>>
                             ELSE EncFail(t, f3, "write")
    /\ UNCHANGED <<files, decs, now, clobbered, rs, dres, lim, dl, rot>>

CommitNoAnswer(t) ==
    /\ pc[t] = "sealed"
    /\ calls' = [calls EXCEPT ![t].body = enc[t].body, ![t].newest = enc[t].newest,
                              ![t].minted = (enc[t].addDec # <<>>),
                              ![t].wrote = enc[t].dec.id]
    /\ pc' = [pc EXCEPT ![t] = "done"]
    /\ up' = [up EXCEPT ![t] = UpZero]
    /\ enc' = [enc EXCEPT ![t] = EncZero]
    /\ UNCHANGED <<status, files, disk, decs, now, clobbered, faults, rs, dres, lim, dl, rot>>

\* Upload lines 170-179 and 212-215: EncryptAndCopy returned nil; the file
\* is closed and the handler answers 201 with w.WriteHeader, which writes
\* no body (calls[t].resp stays NoBody).
Commit(t) ==
    /\ pc[t] = "sealed"
    /\ calls' = [calls EXCEPT ![t].body = enc[t].body, ![t].newest = enc[t].newest,
                              ![t].minted = (enc[t].addDec # <<>>),
                              ![t].wrote = enc[t].dec.id]
    /\ Respond(t, StatusCreated)
    /\ UNCHANGED <<files, disk, decs, now, clobbered, faults, rs, dres, lim, dl, rot>>

(***************************************************************************)
(* The compensation of a failed attempt, upload lines 181-209.             *)
(***************************************************************************)
\* The status is answered, then db.RemoveFile(strId); its error is logged.
Comp1(t) ==
    /\ pc[t] = "failed"
    /\ status' = [status EXCEPT ![t] =
                     IF up[t].err = "tooBig" THEN StatusUnprocessableEntity
                     ELSE StatusServiceUnavailable]
    /\ \E dbOk \in BOOLEAN :
         /\ Charge(IF dbOk THEN 0 ELSE 1)
         /\ files' = IF dbOk THEN RemoveFile(files, up[t].strId) ELSE files
         /\ calls' = [calls EXCEPT ![t].removeFile = Append(@, up[t].strId),
                                   ![t].removeFileOk = dbOk]
    /\ pc' = [pc EXCEPT ![t] = "comp2"]
    /\ enc' = [enc EXCEPT ![t] = EncZero]
    /\ UNCHANGED <<up, disk, decs, now, clobbered, rs, dres, lim, dl, rot>>

Comp2Gated(t) ==
    /\ pc[t] = "comp2"
    /\ Charge(0)
    /\ disk' = IF calls[t].removeFileOk /\ up[t].path # NoId
               THEN OsRemove(disk, up[t].path) ELSE disk
    /\ calls' = [calls EXCEPT ![t].osRemove =
                     IF calls[t].removeFileOk THEN Append(@, up[t].path) ELSE @,
                               ![t].osRemoveOk = calls[t].removeFileOk]
    /\ pc' = [pc EXCEPT ![t] = "done"]
    /\ up' = [up EXCEPT ![t] = UpZero]
    /\ UNCHANGED <<enc, status, files, decs, now, clobbered, rs, dres, lim, dl, rot>>

\* os.Remove(path); its error is logged; the handler returns.
Comp2(t) ==
    /\ pc[t] = "comp2"
    /\ \E fsOk \in BOOLEAN :
       \E ok \in {fsOk /\ up[t].path # NoId /\ disk[up[t].path].exists} :
         /\ Charge(IF ~fsOk /\ up[t].path # NoId /\ disk[up[t].path].exists THEN 1 ELSE 0)
         /\ disk' = IF ok THEN OsRemove(disk, up[t].path) ELSE disk
         /\ clobbered' = IF ok /\ disk[up[t].path].by # t
                         THEN clobbered \cup {disk[up[t].path].by}
                         ELSE clobbered
         /\ calls' = [calls EXCEPT ![t].osRemove = Append(@, up[t].path),
                                   ![t].osRemoveOk = ok]
    /\ pc' = [pc EXCEPT ![t] = "done"]
    /\ up' = [up EXCEPT ![t] = UpZero]
    /\ UNCHANGED <<enc, status, files, decs, now, rs, dres, lim, dl, rot>>

\* Time passes.
Tick ==
    /\ now < MaxTime
    /\ now' = now + 1
    /\ UNCHANGED <<pc, up, enc, status, calls, files, disk, decs, clobbered, faults, rs, dres, lim, dl, rot>>

\* A DecryptAndCopy over a stored blob, into a buffer.
Decrypt ==
    /\ \E x \in Ids, fault \in {"none", "db", "kms", "write"} :
         /\ disk[x].exists
         /\ \E r \in {DecryptAndCopy(disk[x].data, decs, fault)} :
              dres' = [name |-> x, data |-> disk[x].data, fault |-> fault,
                       err |-> r.err, out |-> r.out, chunk |-> NonceSize,
                       n1 |-> r.n1, n2 |-> r.n2, getDec |-> r.getDec, kms |-> r.kms]
    /\ UNCHANGED <<pc, up, enc, status, calls, files, disk, decs, now, clobbered, faults, rs, lim, dl, rot>>

(***************************************************************************)
(* http.ResponseWriter.  The first WriteHeader sets the status line, a     *)
(* later one is ignored; a Write before any WriteHeader sends 200.  The    *)
(* body is the sequence of the chunks written: an error document           *)
(* (UploadResponse with one ApiError), the header of a multipart part, the *)
(* bytes of its content, the closing boundary.                             *)
(***************************************************************************)
Chunk(kind, code, name, bytes) == [kind |-> kind, code |-> code, name |-> name, bytes |-> bytes]

WriteHeader(w, code) == IF w.status = 0 THEN [w EXCEPT !.status = code] ELSE w

Write(w, chunk) ==
    [status |-> IF w.status = 0 THEN StatusOK ELSE w.status,
     body |-> IF w.broken THEN w.body ELSE Append(w.body, chunk),
     broken |-> w.broken]

\* A Write the client does not receive: the connection is gone.
FailedWrite(w) ==
    [status |-> IF w.status = 0 THEN StatusOK ELSE w.status, body |-> w.body, broken |-> TRUE]

writeErrorBare(w, code, statusCode) ==
    Write(w, Chunk("error", code, <<>>, <<>>))

\* api.writeError: an UploadResponse with one error, through writeResponse
\* (w.WriteHeader(status), then w.Write(body)).
writeError(w, code, statusCode) ==
    Write(WriteHeader(w, statusCode), Chunk("error", code, <<>>, <<>>))

(***************************************************************************)
(* api.FileDownload.  Downloads are served while no upload is in progress. *)
(*   json   : Content-Type is application/json                             *)
(*   lenOk  : 0 <= Content-Length <= maxContentLen                         *)
(*   bodyOk : the body is read without error                               *)
(*   jsonOk : json.Unmarshal accepts the body                              *)
(*   id     : req.Id ("": the document has no id)                          *)
(* dl.after holds the uploads answered before the download arrived,        *)
(* dl.fault says whether a collaborator of the download failed.            *)
(***************************************************************************)
NoName == ""

DlIds == Ids \cup {NoName}

GoodDlRequest(id) ==
    [json |-> TRUE, lenOk |-> TRUE, bodyOk |-> TRUE, jsonOk |-> TRUE, id |-> id]

DlRequests ==
    {GoodDlRequest(id) : id \in DlIds}
    \cup {[GoodDlRequest(id) EXCEPT !.json = FALSE] : id \in Ids}
    \cup {[GoodDlRequest(id) EXCEPT !.lenOk = FALSE] : id \in Ids}
    \cup {[GoodDlRequest(id) EXCEPT !.bodyOk = FALSE] : id \in Ids}
    \cup {[GoodDlRequest(id) EXCEPT !.jsonOk = FALSE] : id \in Ids}

Settled == \A t \in Tasks : pc[t] \in {"idle", "done"}

\* An upload that has inserted the row of id has not returned yet: it is
\* writing the blob or compensating.
Racing(id) == \E t \in Tasks : pc[t] \notin {"idle", "done"} /\ calls[t].id = id

GetFileLoose(table, generatedName) ==
    IF generatedName \in Ids /\ table[generatedName].exists
    THEN [err |-> Nil, filename |-> table[generatedName].name]
    ELSE [err |-> Nil, filename |-> <<>>]

\* SELECT fileName FROM files WHERE generatedName = ? LIMIT 1
GetFile(table, generatedName) ==
    IF generatedName \in Ids /\ table[generatedName].exists
    THEN [err |-> Nil, filename |-> table[generatedName].name]
    ELSE [err |-> "NoRows", filename |-> <<>>]

\* SymmetricCrypter.DecryptFileName
DecryptFileName(ciphertext) == MakeDecryptRequest(ciphertext)

\* writeError followed by the handler's return.
DlAnswer(d, code, statusCode) ==
    [d EXCEPT !.pc = "done", !.w = writeError(@, code, statusCode),
              !.log = Append(@, "Write")]

\* Lines 102-157: the gates on the request, db.GetFile and
\* c.DecryptFileName.
DlReceive(requests) ==
    /\ dl.pc = "idle"
    /\ \E rq \in requests, dbOk \in BOOLEAN, kmsOk \in BOOLEAN, how \in KmsFailures :
       \E d \in {[dl EXCEPT !.rq = rq, !.after = {t \in Tasks : pc[t] = "done"},
                            !.raced = Racing(rq.id)]} :
       \E got \in {GetFile(files, rq.id)} :
       \E d1 \in {[d EXCEPT !.log = Append(@, "GetFile")]} :
       \E name \in {DecryptFileName(got.filename)} :
       \E d2 \in {[d1 EXCEPT !.log = Append(@, "DecryptFileName")]} :
         dl' = IF ~rq.json
               THEN DlAnswer(d, "InvalidContentFormat", StatusUnsupportedMediaType)
               ELSE IF ~rq.lenOk
               THEN DlAnswer(d, "InvalidContentFormat", StatusUnprocessableEntity)
               ELSE IF ~rq.bodyOk \/ ~rq.jsonOk
               THEN DlAnswer(d, "InvalidContentFormat", StatusBadRequest)
               ELSE IF dbOk /\ got.err = "NoRows"
               THEN DlAnswer(d1, "NotFound", StatusNotFound)
               ELSE IF ~dbOk
               THEN DlAnswer([d1 EXCEPT !.fault = TRUE], "InternalApiError",
                             StatusServiceUnavailable)
               ELSE IF ~kmsOk \/ name.err # Nil
               THEN DlAnswer([d2 EXCEPT !.fault = ~kmsOk,
                                        !.bodies = IF kmsOk THEN makeRequest("status")
                                                   ELSE makeRequest(how)],
                             "InternalApiError", StatusServiceUnavailable)
               ELSE [d2 EXCEPT !.pc = "named", !.fileName = name.plaintext]
    /\ UNCHANGED <<pc, up, enc, status, calls, files, disk, decs, now, clobbered, faults,
                   rs, dres, lim, rot>>

DlOpenLate ==
    /\ dl.pc = "named"
    /\ \E ok \in BOOLEAN :
       \E d \in {[dl EXCEPT !.w = Write(@, Chunk("part", "", dl.fileName, <<>>)),
                            !.log = @ \o <<"Write", "Open">>,
                            !.raced = @ \/ Racing(dl.rq.id)]} :
         dl' = IF ~ok \/ ~disk[dl.rq.id].exists
               THEN DlAnswer([d EXCEPT !.fault = ~ok], "InternalApiError",
                             StatusServiceUnavailable)
               ELSE [d EXCEPT !.pc = "opened", !.file = dl.rq.id]
    /\ UNCHANGED <<pc, up, enc, status, calls, files, disk, decs, now, clobbered, faults,
                   rs, dres, lim, rot>>

\* Lines 159-166: os.Open of filepath.Join(storageDir, req.Id).
DlOpen ==
    /\ dl.pc = "named"
    /\ \E ok \in BOOLEAN :
       \E d \in {[dl EXCEPT !.log = Append(@, "Open"),
                            !.raced = @ \/ Racing(dl.rq.id)]} :
         dl' = IF ~ok \/ ~disk[dl.rq.id].exists
               THEN DlAnswer([d EXCEPT !.fault = ~ok], "InternalApiError",
                             StatusServiceUnavailable)
               ELSE [d EXCEPT !.pc = "opened", !.file = dl.rq.id]
    /\ UNCHANGED <<pc, up, enc, status, calls, files, disk, decs, now, clobbered, faults,
                   rs, dres, lim, rot>>

\* Lines 168-185 and the deferred form.Close() and file.Close():
\* CreateFormFile writes the header of the part to w, DecryptAndCopy reads
\* the file and writes the plaintext, form.Close() writes the closing
\* boundary on every path.
DlCopy ==
    /\ dl.pc = "opened"
    /\ \E formOk \in BOOLEAN, fault \in {"none", "db", "kms", "write"}, how \in KmsFailures :
       \E r \in {DecryptAndCopy(disk[dl.file].data, decs, fault)} :
       \E w1 \in {IF formOk THEN Write(dl.w, Chunk("part", "", dl.fileName, <<>>))
                   ELSE FailedWrite(dl.w)} :
       \E w2 \in {IF r.err = Nil THEN Write(w1, Chunk("data", "", <<>>, r.out))
                   ELSE IF r.err = "write" THEN FailedWrite(w1)
                   ELSE w1} :
       \E w3 \in {IF r.err = Nil THEN w2
                   ELSE writeError(w2, "InternalApiError", StatusServiceUnavailable)} :
         dl' = IF ~formOk
               THEN [dl EXCEPT !.pc = "done", !.fault = TRUE,
                               !.raced = @ \/ Racing(dl.rq.id),
                               !.w = Write(writeError(w1, "InternalApiError",
                                                      StatusServiceUnavailable),
                                           Chunk("close", "", <<>>, <<>>)),
                               !.log = @ \o <<"Write", "Write", "Write">>]
               ELSE [dl EXCEPT !.pc = "done", !.fault = (fault # "none"),
                               !.raced = @ \/ Racing(dl.rq.id),
                               !.w = Write(w3, Chunk("close", "", <<>>, <<>>)),
                               !.err = r.err, !.out = r.out, !.read = disk[dl.file].data,
                               !.bodies = IF r.err # "kms" THEN 0
                                          ELSE IF fault = "kms" THEN makeRequest(how)
                                          ELSE makeRequest("status"),
                               !.log = @ \o <<"Write">>
                                         \o (IF r.getDec THEN <<"GetDEC">> ELSE <<>>)
                                         \o (IF r.kms THEN <<"MakeDecryptRequest">> ELSE <<>>)
                                         \o (IF r.err \in {Nil, "write"} THEN <<"Write">>
                                             ELSE <<>>)
                                         \o (IF r.err # Nil THEN <<"Write">> ELSE <<>>)
                                         \o <<"Write">>]
    /\ UNCHANGED <<pc, up, enc, status, calls, files, disk, decs, now, clobbered, faults,
                   rs, dres, lim, rot>>

(***************************************************************************)
(* Damage to a stored blob behind the server's back, before the download   *)
(* that reads it: one bit changed, or the file cut short.                  *)
(***************************************************************************)
FlipBit(data, at) ==
    LET i == (at \div 8) + 1
        k == 2 ^ (at % 8)
    IN  [data EXCEPT ![i] = IF (@ \div k) % 2 = 1 THEN @ - k ELSE @ + k]

Rot(kinds) ==
    /\ Settled /\ dl.pc = "idle" /\ rot = NoRot
    /\ \E x \in Ids :
         /\ files[x].exists /\ disk[x].exists /\ disk[x].data # <<>>
         /\ \/ /\ "flip" \in kinds
               /\ \E at \in 0..(8 * Len(disk[x].data) - 1) :
                    /\ disk' = [disk EXCEPT ![x].data = FlipBit(@, at)]
                    /\ rot' = [name |-> x, was |-> disk[x].data, kind |-> "flip", at |-> at]
            \/ /\ "cut" \in kinds
               /\ \E n \in 0..(Len(disk[x].data) - 1) :
                    /\ disk' = [disk EXCEPT ![x].data = SubSeq(@, 1, n)]
                    /\ rot' = [name |-> x, was |-> disk[x].data, kind |-> "cut", at |-> n]
    /\ UNCHANGED <<pc, up, enc, status, calls, files, decs, now, clobbered, faults,
                   rs, dres, lim, dl>>

\* A DecryptAndCopy over a stored blob through a reader that delivers at
\* most chunk bytes to a Read (a pipe, a network stream, a bufio.Reader
\* near the end of its buffer), into a buffer.
ShortChunks == {1, 8}

DecryptShort ==
    /\ \E x \in Ids, chunk \in ShortChunks :
         /\ disk[x].exists
         /\ \E r \in {DecryptAndCopyFrom([data |-> disk[x].data, chunk |-> chunk],
                                          decs, "none")} :
              dres' = [name |-> x, data |-> disk[x].data, fault |-> "none",
                       err |-> r.err, out |-> r.out, chunk |-> chunk,
                       n1 |-> r.n1, n2 |-> r.n2, getDec |-> r.getDec, kms |-> r.kms]
    /\ UNCHANGED <<pc, up, enc, status, calls, files, disk, decs, now, clobbered, faults,
                   rs, lim, dl, rot>>

Step(t, in) ==
    \/ Start(t, in.requests)
    \/ AddFile(t)
    \/ Create(t)
    \/ GetNewest(t)
    \/ Mint(t)
    \/ Seal(t, in.readers, in.seeds)
    \/ Commit(t)
    \/ Comp1(t)
    \/ Comp2(t)

\* Requests are served concurrently, one goroutine each.
Next ==
    \/ \E t \in Tasks : Step(t, Narrow)
    \/ Tick

Spec == Init /\ [][Next]_vars

\* Requests served one after the other.
Quiet(t) == \A u \in Tasks \ {t} : pc[u] \in {"idle", "done"}

NextSeq ==
    \/ \E t \in Tasks : Quiet(t) /\ Step(t, Narrow)
    \/ Tick

SpecSeq == Init /\ [][NextSeq]_vars

\* One request, of any shape, and its blob read back.
First == CHOOSE t \in Tasks : TRUE

NextOne ==
    \/ Step(First, Wide)
    \/ Tick
    \/ Decrypt

SpecOne == Init /\ [][NextOne]_vars

\* One upload and one download, of any shape, over a directory whose blobs
\* may have been damaged; the decs table may hold the rows of three
\* earlier mints of one second.
OldDecs ==
    <<OldDec,
      [id |-> 2, value |-> MakeEncryptRequest(RandBytes(2, KeySize)), created |-> 0],
      [id |-> 3, value |-> MakeEncryptRequest(RandBytes(3, KeySize)), created |-> 0]>>

InitDown ==
    /\ pc = [t \in Tasks |-> "idle"]
    /\ up = [t \in Tasks |-> UpZero]
    /\ enc = [t \in Tasks |-> EncZero]
    /\ status = [t \in Tasks |-> 0]
    /\ calls = [t \in Tasks |-> NoCalls]
    /\ files = [x \in Ids |-> NoRow]
    /\ disk = [x \in Ids |-> NoFile]
    /\ decs \in {<<>>, OldDecs}
    /\ now = 0
    /\ clobbered = {}
    /\ faults = 0
    /\ rs = 1
    /\ dres = NoDres /\ lim = NoLim /\ dl = NoDl /\ rot = NoRot

NextDown ==
    \/ Step(First, Narrow)
    \/ Rot({"flip", "cut"})
    \/ Settled /\ DlReceive(DlRequests)
    \/ Settled /\ DlOpen
    \/ Settled /\ DlCopy

SpecDown == InitDown /\ [][NextDown]_vars

\* One upload, its blob possibly cut short afterwards, read through a
\* reader that delivers short reads.
NextShort ==
    \/ Step(First, Narrow)
    \/ Rot({"cut"})
    \/ DecryptShort

SpecShort == Init /\ [][NextShort]_vars

\* Concurrent uploads, and a well-formed download once they are answered;
\* the run ends with the download, no upload arriving after it.
NextServe ==
    \/ dl.pc = "idle" /\ \E t \in Tasks : Step(t, Narrow)
    \/ dl.pc = "idle" /\ Tick
    \/ Settled /\ DlReceive({GoodDlRequest(id) : id \in Ids})
    \/ Settled /\ DlOpen
    \/ Settled /\ DlCopy

SpecServe == Init /\ [][NextServe]_vars

(***************************************************************************)
(* The limiter read on its own, by a caller that asks for any number of    *)
(* bytes at a time and keeps reading after an error.                       *)
(***************************************************************************)
InitLim ==
    /\ Idle /\ dl = NoDl /\ rot = NoRot
    /\ \E rd \in PartReaders, limit \in 1..MaxUploadSize :
          lim = [NoLim EXCEPT !.lr = newLimitedReader(rd, limit),
                              !.src = rd.data, !.limit = limit]

LimRead ==
    /\ lim.reads < MaxReads
    /\ \E plen \in 1..(MaxUploadSize + 1) :
       \E r \in {LimitedRead(lim.lr, plen)} :
          lim' = [lim EXCEPT !.lr = r.lr, !.out = @ \o r.data, !.pre = Len(lim.out),
                             !.data = r.data, !.err = r.err, !.reads = @ + 1]
    /\ UNCHANGED <<pc, up, enc, status, calls, files, disk, decs, now, clobbered,
                   faults, rs, dres, dl, rot>>

NextLim == LimRead

SpecLim == InitLim /\ [][NextLim]_vars

(***************************************************************************)
(* Properties of the upload handler.                                       *)
(***************************************************************************)
\* The upload that holds the generated name x, before and during its
\* compensation.
Uploading(x) ==
    \E t \in Tasks : /\ pc[t] \in {"create", "getnewest", "mint", "seal", "sealed"}
                     /\ up[t].strId = x

Compensating(x) ==
    \E t \in Tasks : pc[t] \in {"failed", "comp2"} /\ up[t].strId = x

\* A blob is a complete frame when it holds more than an empty sealed
\* body and DecryptAndCopy accepts it.
WellFormed(data) ==
    /\ Len(data) > 8 + NonceSize + TagSize
    /\ DecryptAndCopy(data, decs, "none").err = Nil

\* The upload t has answered a failure after its id was allocated.
FailedUpload(t) ==
    pc[t] = "done" /\ calls[t].id # NoId /\ status[t] # StatusCreated

\* C1: in every reachable state a FileRecord x has a blob storage_dir/x
\* that is a complete well-formed frame, or a compensating delete for x is
\* in progress.  The upload that holds x is counted here as in progress
\* too, from add_file to its answer, which only weakens the statement.
C1_RowHasBlob ==
    \A x \in Ids :
        files[x].exists =>
            \/ disk[x].exists /\ WellFormed(disk[x].data)
            \/ Uploading(x)
            \/ Compensating(x)

\* C2: after a failed upload has completed, whatever failed after its id x
\* was allocated, its FileRecord x or its blob x is gone.  Only the row and
\* the blob this upload created are looked at.
C2_FailedLeavesNoPair ==
    \A t \in Tasks :
        FailedUpload(t) =>
            LET x == calls[t].id IN
            ~ (/\ files[x].exists /\ files[x].by = t
               /\ disk[x].exists /\ disk[x].by = t)

\* C3: when the attempt for x fails after add_file succeeded and both
\* compensators succeed, remove_file was called exactly once, with x, and
\* storage_dir/x was removed, so that as the handler returns neither a row
\* nor a blob for x exists.
C3_BothCompensatorsClean ==
    [][\A t \in Tasks :
          (/\ pc[t] = "comp2" /\ pc'[t] = "done"
           /\ up[t].err \in {"tooBig", "other"}
           /\ calls'[t].removeFileOk /\ calls'[t].osRemoveOk)
          => LET x == calls[t].id IN
             /\ calls'[t].removeFile = <<x>>
             /\ calls'[t].osRemove = <<x>>
             /\ ~ disk'[x].exists
             /\ ~ files'[x].exists]_vars

\* C4: among concurrent uploads, only the upload that created the blob at
\* a path removes it: the compensation of one upload never removes a blob
\* another upload created.
C4_OnlyOwnerRemoves ==
    [][\A x \in Ids :
          (disk[x].exists /\ ~ disk'[x].exists)
          => \E t \in Tasks : pc[t] = "comp2" /\ pc'[t] = "done" /\ disk[x].by = t]_vars

(***************************************************************************)
(* Properties of the crypter.                                              *)
(***************************************************************************)
\* The upload t answered 201 and its blob has been read back whole,
\* without an injected fault.
ReadBack(t) ==
    /\ pc[t] = "done" /\ status[t] = StatusCreated
    /\ dres.name = calls[t].id /\ dres.fault = "none" /\ dres.chunk = NonceSize
    /\ disk[calls[t].id].exists /\ dres.data = disk[calls[t].id].data

\* C5: for a plaintext P of 1..max_file_size bytes, decrypt_and_copy over
\* the frame a successful encrypt_and_copy(P) wrote, with a minted or a
\* reused DEK, succeeds and writes exactly P.
C5_RoundTrip ==
    \A t \in Tasks :
        (ReadBack(t) /\ Len(calls[t].body) \in 1..MaxUploadSize)
        => dres.err = Nil /\ dres.out = calls[t].body

\* C5 witness: a plaintext of the largest size, sealed under the reused
\* newest DEK, has been read back.
C5_Witness ==
    \E t \in Tasks :
        /\ ReadBack(t) /\ Len(calls[t].body) = MaxUploadSize
        /\ calls[t].newest = Nil /\ ~ calls[t].minted
        /\ dres.err = Nil /\ dres.out = calls[t].body

\* C6: a successful encrypt_and_copy writes, in this order and nothing
\* else, the 8 little-endian bytes of the id of the DEK it sealed with,
\* the 12-byte nonce it sealed with, and the ciphertext with its tag,
\* |P| + 16 bytes: 20 + |P| + 16 bytes in all.
C6_FrameLayout ==
    \A t \in Tasks :
        pc[t] = "sealed" =>
            LET w == enc[t].writes
                id == enc[t].dec.id
                P == enc[t].sealed
            IN  /\ Len(w) = 3
                /\ Len(w[1]) = 8
                /\ w[1][1] = id % 256 /\ w[1][2] = (id \div 256) % 256
                /\ \A i \in 3..8 : w[1][i] = 0
                /\ \E r \in Rows(decs) :
                      r.id = id /\ MakeDecryptRequest(r.value).plaintext = enc[t].key
                /\ Len(w[2]) = 12
                /\ Len(w[3]) = Len(P) + 16
                /\ GcmOpen(enc[t].key, w[2], w[3]) = [err |-> Nil, plaintext |-> P]
                /\ disk[up[t].path].data = w[1] \o w[2] \o w[3]
                /\ Len(disk[up[t].path].data) = 20 + Len(P) + 16

\* C6 witness: a frame for a plaintext of the largest size under a DEK
\* minted by this call.
C6_Witness ==
    \E t \in Tasks :
        /\ pc[t] = "sealed" /\ enc[t].addDec # <<>>
        /\ Len(enc[t].sealed) = MaxUploadSize
        /\ Len(disk[up[t].path].data) = 20 + MaxUploadSize + 16

\* C7: when get_newest returns a DEK older than the rotation period the
\* call mints a DEK with a different id, stores it and writes the new id;
\* a later call made, one after the other, within the rotation period of
\* that DEK mints nothing.
C7_RotationThenReuse ==
    /\ [](\A t \in Tasks :
            (pc[t] = "sealed" /\ enc[t].newest = Nil /\ enc[t].age > RotationPeriod)
            => /\ enc[t].dec.id # enc[t].seen.id
               /\ enc[t].dec \in Rows(decs)
               /\ Uint64(enc[t].writes[1]) = enc[t].dec.id)
    /\ [][\A a, b \in Tasks :
            (/\ pc[a] = "done" /\ status[a] = StatusCreated
             /\ calls[a].newest = Nil /\ calls[a].minted
             /\ \E r \in Rows(decs) :
                   r.id = calls[a].wrote /\ Since(r.created, now) <= RotationPeriod
             /\ pc[b] = "getnewest")
            => pc'[b] # "mint"]_vars

\* C8: racing calls that each observed no fresh DEK each add their own
\* row and all rows land, under ids of their own; every frame carries the
\* id of a row whose wrapped_key unwraps to the key the frame was sealed
\* with.
C8_RacingMints ==
    /\ \A i, j \in 1..Len(decs) : decs[i].id = decs[j].id => i = j
    /\ \A t \in Tasks :
          (pc[t] \in {"seal", "sealed"} /\ enc[t].addDec # <<>>)
          => enc[t].dec \in Rows(decs) /\ enc[t].dec.value = enc[t].addDec[1]
    /\ \A t \in Tasks :
          pc[t] = "sealed" =>
              LET got == GetDEC(decs, Uint64(enc[t].writes[1]))
              IN  /\ got.err = Nil
                  /\ MakeDecryptRequest(got.dec.value) =
                        [err |-> Nil, plaintext |-> enc[t].key]

\* C8 witness: two calls saw the same newest DEK, both minted, and both
\* have written their frame.
C8_Witness ==
    \E t, u \in Tasks :
        /\ t # u
        /\ pc[t] = "sealed" /\ pc[u] = "sealed"
        /\ enc[t].addDec # <<>> /\ enc[u].addDec # <<>>
        /\ enc[t].seen = enc[u].seen /\ enc[t].newest = enc[u].newest
        /\ enc[t].dec.id # enc[u].dec.id
        /\ enc[t].key # enc[u].key

\* The call of t found no DEK, or one older than the rotation period.
NoFreshDek(t) ==
    \/ enc[t].newest = "NoRows"
    \/ enc[t].newest = Nil /\ enc[t].age > RotationPeriod

\* The call of t found a DEK within the rotation period.
FreshDek(t) == enc[t].newest = Nil /\ enc[t].age <= RotationPeriod

\* C9: when get_newest returns NotFound or a stale DEK, the call draws one
\* 32-byte key, calls KMS encrypt exactly once, with that key, calls add
\* exactly once, with wrapped_key the ciphertext KMS returned, and never
\* calls KMS decrypt.
C9_MintPath ==
    \A t \in Tasks :
        NoFreshDek(t) =>
            /\ enc[t].kmsDec = <<>>
            /\ Len(enc[t].kmsEnc) <= 1 /\ Len(enc[t].addDec) <= 1
            /\ pc[t] = "sealed" =>
                  /\ enc[t].draws = <<32, NonceSize>>
                  /\ Len(enc[t].key) = 32
                  /\ enc[t].kmsEnc = <<enc[t].key>>
                  /\ enc[t].addDec = <<MakeEncryptRequest(enc[t].key)>>
                  /\ \E r \in Rows(decs) :
                        r.id = enc[t].dec.id /\ r.value = enc[t].addDec[1]

\* C9 witness: a call that was handed a stale DEK has minted and sealed.
C9_Witness ==
    \E t \in Tasks :
        /\ pc[t] = "sealed" /\ enc[t].newest = Nil /\ enc[t].age > RotationPeriod
        /\ enc[t].kmsEnc # <<>> /\ enc[t].addDec # <<>>

\* C10: when get_newest returns a fresh DEK, the call calls KMS decrypt
\* exactly once, on that DEK's wrapped_key, never calls KMS encrypt, draws
\* no key (the nonce only), adds no DEK row, and writes that DEK's id.
C10_ReusePath ==
    \A t \in Tasks :
        FreshDek(t) =>
            /\ enc[t].kmsEnc = <<>> /\ enc[t].addDec = <<>>
            /\ Len(enc[t].kmsDec) <= 1
            /\ \A i \in 1..Len(enc[t].draws) : enc[t].draws[i] = NonceSize
            /\ pc[t] = "sealed" =>
                  /\ enc[t].kmsDec = <<enc[t].seen.value>>
                  /\ enc[t].draws = <<NonceSize>>
                  /\ Uint64(enc[t].writes[1]) = enc[t].seen.id
                  /\ decs = <<enc[t].seen>>

\* C10 witness: a call that was handed a fresh DEK has sealed with it.
C10_Witness ==
    \E t \in Tasks :
        /\ pc[t] = "sealed" /\ FreshDek(t)
        /\ enc[t].kmsDec = <<enc[t].seen.value>>
        /\ Uint64(enc[t].writes[1]) = enc[t].seen.id

(***************************************************************************)
(* Properties of the stores, the limiter and the handler's answers.        *)
(***************************************************************************)
\* The DEC id at the head of a blob that holds at least the id.
BlobDecId(x) == Uint64(SubSeq(disk[x].data, 1, 8))

\* C11: the DEK store is append-only.  A row, once added, keeps its id,
\* wrapped_key and created_at and is never removed; ids are unique and
\* every add takes an id above all earlier ones; so the id at the head of
\* any blob resolves through get(id) in every later state.
C11_AppendOnly ==
    /\ [](/\ \A i, j \in 1..Len(decs) : i < j => decs[i].id < decs[j].id
          /\ \A x \in Ids :
                (disk[x].exists /\ Len(disk[x].data) >= 8)
                => GetDEC(decs, BlobDecId(x)).err = Nil)
    /\ [][/\ Len(decs') >= Len(decs)
          /\ \A i \in 1..Len(decs) : decs'[i] = decs[i]]_vars

\* C11 witness: a blob sealed under the first DEK is on disk, whole, after
\* a later call has added the second DEK.
C11_Witness ==
    \E x \in Ids :
        /\ disk[x].exists /\ Len(disk[x].data) > 8 + NonceSize + TagSize
        /\ Len(decs) = 2
        /\ BlobDecId(x) = decs[1].id
        /\ GetDEC(decs, BlobDecId(x)).dec = decs[1]

\* C12: for a stream longer than the declared size S read through the
\* limiter, the bytes delivered are the first bytes of the stream and never
\* more than S; a Read returns the size-exceeded error exactly when the S
\* bytes have been delivered before it, and then, like every later Read,
\* it delivers nothing.
C12_LimiterCutsAtS ==
    Len(lim.src) > lim.limit =>
        /\ Len(lim.out) <= lim.limit
        /\ lim.out = SubSeq(lim.src, 1, Len(lim.out))
        /\ lim.reads > 0 => ((lim.err = "tooBig") <=> (lim.pre = lim.limit))
        /\ lim.err = "tooBig" =>
              lim.data = <<>> /\ lim.out = SubSeq(lim.src, 1, lim.limit)

\* C12 witness: the largest declared size on a longer stream, the size
\* exceeded error returned again by a Read after the one that first
\* returned it.
C12_Witness ==
    /\ lim.limit = MaxUploadSize /\ Len(lim.src) > lim.limit
    /\ lim.reads = MaxReads /\ lim.err = "tooBig"
    /\ lim.out = SubSeq(lim.src, 1, lim.limit)

\* C13: a file body of at most the declared size S is never reported as
\* exceeding it, however the part delivers its bytes and its end of
\* stream: an attempt fails on the size-exceeded error only for a body
\* longer than S.
C13_WithinSizeAccepted ==
    \A t \in Tasks :
        (pc[t] = "failed" /\ up[t].err = "tooBig")
        => Len(enc[t].body) > up[t].fileSize

\* C14: within one upload add_file has succeeded for the id before the
\* blob file storage_dir/id is opened, and the blob file is open before
\* the crypter reads the file part.
C14_InsertOpenRead ==
    [][/\ \A x \in Ids :
             (~ disk[x].exists /\ disk'[x].exists)
             => files[x].exists /\ files[x].by = disk'[x].by
       /\ \A t \in Tasks :
             (pc[t] = "seal" /\ pc'[t] # "seal")
             => /\ files[up[t].strId].exists /\ files[up[t].strId].by = t
                /\ up[t].path = up[t].strId
                /\ disk[up[t].path].exists /\ disk[up[t].path].by = t]_vars

\* C14 witness: the crypter has read the whole file part of an upload whose
\* row and blob are in place.
C14_Witness ==
    \E t \in Tasks :
        /\ pc[t] = "sealed" /\ Len(enc[t].sealed) = MaxUploadSize
        /\ files[up[t].strId].by = t /\ disk[up[t].path].by = t

\* C15: when add_file reports a unique-constraint violation on the id
\* column the handler goes back to generate another id, having added,
\* created, written and removed nothing for the colliding id, and an id is
\* only ever inserted when no row holds it; on any other add_file error it
\* answers ServiceUnavailable with no row added, no file created and no
\* compensation run.
C15_AddFileErrors ==
    [][\A t \in Tasks :
          /\ (pc[t] = "alloc" /\ pc'[t] = "alloc" /\ up'[t] # up[t])
             => /\ files[up'[t].strId].exists
                /\ files' = files /\ disk' = disk /\ calls' = calls
                /\ status'[t] = 0
          /\ (pc[t] = "alloc" /\ pc'[t] = "create")
             => /\ ~ files[up'[t].strId].exists
                /\ files'[up'[t].strId].by = t
          /\ (pc[t] = "alloc" /\ pc'[t] = "done")
             => /\ status'[t] = StatusServiceUnavailable
                /\ files' = files /\ disk' = disk
                /\ calls'[t] = calls[t] /\ calls[t].id = NoId
                /\ calls[t].removeFile = <<>> /\ calls[t].osRemove = <<>>]_vars

\* C15 witness: an upload has drawn an id whose row another upload holds
\* and is about to draw again.
C15_Witness ==
    \E t \in Tasks :
        /\ pc[t] = "alloc" /\ up[t].strId # NoId
        /\ files[up[t].strId].exists /\ files[up[t].strId].by # t
        /\ calls[t].id = NoId /\ status[t] = 0

C17_CompensationKeepsAnswer ==
    /\ [](\A t \in Tasks :
            FailedUpload(t) =>
                /\ status[t] \in {StatusUnprocessableEntity, StatusServiceUnavailable}
                /\ Len(calls[t].removeFile) = 1
                /\ Len(calls[t].osRemove) = 1)
    /\ [][\A t \in Tasks :
            /\ (pc[t] = "failed" /\ pc'[t] = "comp2")
               => status'[t] = IF up[t].err = "tooBig"
                               THEN StatusUnprocessableEntity
                               ELSE StatusServiceUnavailable
            /\ (pc[t] = "comp2" /\ pc'[t] = "done")
               => status'[t] = status[t]]_vars

\* C17 witness: both compensators of an attempt cut off by the limiter
\* failed, the second after the first, and the answer is still 422.
C17_Witness ==
    \E t \in Tasks :
        /\ FailedUpload(t) /\ status[t] = StatusUnprocessableEntity
        /\ ~ calls[t].removeFileOk /\ ~ calls[t].osRemoveOk
        /\ calls[t].removeFile = <<calls[t].id>>
        /\ calls[t].osRemove = <<calls[t].id>>

\* C18: an upload answers 201 only if add_file succeeded for its id x and
\* encrypt_and_copy into storage_dir/x succeeded; the body of the answer
\* carries id = x and file_name = the original file name (the one the
\* row's encrypted name decrypts to), and the blob holds exactly the bytes
\* the crypter wrote.
C18_CreatedAnswer ==
    \A t \in Tasks :
        /\ pc[t] = "sealed" => disk[up[t].path].data = Flatten(enc[t].writes)
        /\ (pc[t] = "done" /\ status[t] = StatusCreated)
           => LET x == calls[t].id IN
              /\ x # NoId
              /\ files[x].exists /\ disk[x].exists
              /\ calls[t].resp =
                    [id |-> x, file_name |-> MakeDecryptRequest(files[x].name).plaintext]

\* The handler turned the request of t away at one of the gates that come
\* before the id is generated.
RejectedAtGate(t) == pc[t] = "done" /\ RequestStatus(calls[t].rq) # 0

\* C19: an upload turned away before an id is allocated (media type other
\* than multipart/form-data, first part not named file-size, declared size
\* out of range, second part without a file name) has made no add_file and
\* no remove_file call and no crypter call, and no file of the storage
\* directory and no row is its work.
C19_RejectedTouchesNothing ==
    \A t \in Tasks :
        RejectedAtGate(t)
        => /\ status[t] = RequestStatus(calls[t].rq)
           /\ calls[t].id = NoId
           /\ calls[t].removeFile = <<>> /\ calls[t].osRemove = <<>>
           /\ ~calls[t].encName
           /\ calls[t].newest = "none" /\ ~calls[t].minted /\ calls[t].wrote = 0
           /\ enc[t] = EncZero
           /\ \A x \in Ids : files[x].by # t /\ disk[x].by # t

\* C19 witness: a multipart request whose declared size is above the
\* maximum has been answered 422.
C19_Witness ==
    \E t \in Tasks :
        /\ RejectedAtGate(t)
        /\ calls[t].rq.multipart /\ calls[t].rq.part1 = "file-size"
        /\ FileSizeOf(calls[t].rq.size) > MaxUploadSize
        /\ status[t] = StatusUnprocessableEntity

\* The 8 bytes are the little-endian form of a size S with
\* 0 < S <= max_upload_size.
InRangeField(b) == \E S \in 1..MaxUploadSize : b = contentLenBytes(S)

\* The handler read all 8 bytes of a file-size part from the request of t.
ReadSizeField(t) ==
    /\ pc[t] # "idle"
    /\ calls[t].rq.multipart /\ calls[t].rq.readerOk
    /\ calls[t].rq.part1 = "file-size"
    /\ Len(calls[t].rq.size.data) = 8 /\ calls[t].rq.size.err \in {Nil, EOF}

C21_EncryptedNameStored ==
    \A t \in Tasks :
        /\ pc[t] = "alloc"
           => /\ calls[t].encName /\ calls[t].id = NoId
              /\ up[t].encFileName = MakeEncryptRequest(FileName(calls[t].rq))
        /\ \A x \in Ids :
              (files[x].exists /\ files[x].by = t)
              => /\ files[x].name = MakeEncryptRequest(FileName(calls[t].rq))
                 /\ files[x].name # FileName(calls[t].rq)
                 /\ MakeDecryptRequest(files[x].name).plaintext = FileName(calls[t].rq)
        /\ (pc[t] = "done" /\ calls[t].encName /\ calls[t].id = NoId)
           => \A x \in Ids : files[x].by # t

\* C21 witness: a row holds the encrypted form of the name n1 of the
\* request that inserted it.
C21_Witness ==
    \E t \in Tasks, x \in Ids :
        /\ files[x].exists /\ files[x].by = t
        /\ FileName(calls[t].rq) \in FileNames
        /\ files[x].name = MakeEncryptRequest(FileName(calls[t].rq))

(***************************************************************************)
(* Properties of the download handler.                                     *)
(***************************************************************************)
\* The answer of a download that delivers the file name n and the bytes p:
\* status 200 and one part named file.
FileAnswer(n, p) ==
    [status |-> StatusOK,
     body |-> <<Chunk("part", "", n, <<>>), Chunk("data", "", <<>>, p),
                Chunk("close", "", <<>>, <<>>)>>,
     broken |-> FALSE]

\* The download of the id of upload t, which had answered 201 before the
\* download arrived, is over, and none of its collaborators failed.
DownloadedAfter(t) ==
    /\ t \in dl.after /\ status[t] = StatusCreated
    /\ dl.pc = "done" /\ dl.rq.id = calls[t].id /\ ~dl.fault

\* C22: after a successful upload of file name N and plaintext P answered
\* with id X, a later download of X returns a single file part with file
\* name N and body P, whatever uploads, failed uploads and rotations
\* happened in between (database and KMS available).
C22_DownloadReturnsUpload ==
    \A t \in Tasks :
        DownloadedAfter(t)
        => dl.w = FileAnswer(FileName(calls[t].rq), calls[t].body)

\* The download has read, with no failure of a collaborator, the blob that
\* was damaged, and the blob was a frame DecryptAndCopy accepted.
ReadDamaged(kind) ==
    /\ rot.kind = kind /\ WellFormed(rot.was)
    /\ dl.pc = "done" /\ dl.file = rot.name /\ ~dl.fault
    /\ dl.read = disk[rot.name].data

\* C23 (as stated): for a blob a successful encrypt_and_copy produced,
\* changing any single bit of it, in the dek_id, the nonce, the ciphertext
\* or the tag, makes decrypt_and_copy fail with the authentication failure
\* (Corrupted).
C23_AnyBitFlipCorrupted ==
    ReadDamaged("flip") => dl.err = "open"

\* C23 (amended): changing any single bit makes decrypt_and_copy fail and
\* write nothing; the failure is the authentication failure when the bit
\* is in the nonce, the ciphertext or the tag, or when the changed dek_id
\* is the id of another row, and it is the failed lookup of GetDEC when the
\* changed dek_id is the id of no row.
C23_AnyBitFlipFails ==
    ReadDamaged("flip")
    => /\ dl.err \in {"open", "sql.ErrNoRows"}
       /\ dl.out = <<>>
       /\ \A i \in 1..Len(dl.w.body) : dl.w.body[i].kind # "data"
       /\ dl.err = "sql.ErrNoRows"
          <=> /\ rot.at < 64
              /\ GetDEC(decs, Uint64(SubSeq(dl.read, 1, 8))).err # Nil

\* C23 witness: a bit of the dek_id was changed, the id is now that of
\* another row, and the download's DecryptAndCopy failed to authenticate.
C23_Witness ==
    /\ ReadDamaged("flip") /\ rot.at < 64
    /\ GetDEC(decs, Uint64(SubSeq(dl.read, 1, 8))).err = Nil
    /\ dl.err = "open"

\* C24: decrypt_and_copy on a reader that delivers the 8-byte dek_id or the
\* 12-byte nonce in short reads, or ends before they are complete, either
\* completes the field by reading again or fails; it never looks up a
\* partially filled dek_id and never opens with a partially filled nonce,
\* so a frame that holds both fields whole is decrypted whatever the sizes
\* of the reads.
C24_FieldsReadWhole ==
    (dres.name # NoId /\ dres.fault = "none")
    => /\ dres.getDec => dres.n1 = 8
       /\ (dres.kms /\ dres.err # "kms") => dres.n2 = NonceSize
       /\ DecryptAndCopy(dres.data, decs, "none").err = Nil => dres.err = Nil

\* errors.As(err, &db_access.NoRowsError{}): the kind GetNewestDEC and
\* GetFile return when no row matches.
IsNoRowsError(e) == e = "NoRows"

\* C25: get(id) for an id without a DEK row returns the not-found kind,
\* the one get_newest returns on an empty store; and decrypt_and_copy on a
\* frame whose dek_id has no row fails with it, without calling the KMS
\* and without writing to the writer.
C25_MissingDekNotFound ==
    /\ \A id \in 0..(Len(decs) + 1) :
          GetDEC(decs, id).err # Nil => IsNoRowsError(GetDEC(decs, id).err)
    /\ (/\ dl.pc = "done" /\ dl.file # NoId /\ ~dl.fault
        /\ Len(dl.read) >= 8
        /\ GetDEC(decs, Uint64(SubSeq(dl.read, 1, 8))).err # Nil)
       => /\ IsNoRowsError(dl.err)
          /\ \A i \in 1..Len(dl.log) : dl.log[i] # "MakeDecryptRequest"
          /\ \A i \in 1..Len(dl.w.body) : dl.w.body[i].kind # "data"

\* C26: get_newest returns the DEK with the greatest created_at and, among
\* DEKs of equal created_at, the one with the highest id; it returns the
\* not-found kind iff the store is empty.
C26_NewestWithTieBreak ==
    [][\A t \in Tasks :
          (pc[t] = "getnewest" /\ pc'[t] # "getnewest" /\ enc'[t].newest # "db")
          => /\ IsNoRowsError(enc'[t].newest) <=> decs = <<>>
             /\ decs # <<>>
                => /\ enc'[t].seen \in Rows(decs)
                   /\ \A r \in Rows(decs) :
                         \/ r.created < enc'[t].seen.created
                         \/ r.created = enc'[t].seen.created /\ r.id <= enc'[t].seen.id]_vars

\* The files table holds no row whose generatedName is id.
HasNoRow(id) == id \notin Ids \/ ~files[id].exists

\* C27: a download for an id that has no row in the files table is
\* answered NotFound with status 404, having called db.GetFile and nothing
\* else (no KMS call, no os.Open); a GetFile failure of any other kind is
\* answered with status 503.
C27_UnknownIdNotFound ==
    [][(dl.pc = "idle" /\ dl'.pc # "idle" /\ dl'.rq \in {GoodDlRequest(id) : id \in DlIds})
       => /\ (HasNoRow(dl'.rq.id) /\ ~dl'.fault)
             => /\ dl'.pc = "done"
                /\ dl'.w = writeError(NoResponse, "NotFound", StatusNotFound)
                /\ dl'.log = <<"GetFile", "Write">>
                /\ dl'.file = NoId
          /\ (dl'.fault /\ dl'.log = <<"GetFile", "Write">>)
             => /\ dl'.pc = "done"
                /\ dl'.w = writeError(NoResponse, "InternalApiError",
                                      StatusServiceUnavailable)
          /\ dl'.w.status = StatusNotFound => HasNoRow(dl'.rq.id)]_vars

\* C27 witness: a download of an id of the server's that has no row was
\* answered 404.
C27_Witness ==
    /\ dl.pc = "done" /\ dl.rq.id \in Ids /\ ~dl.fault
    /\ dl.w.status = StatusNotFound /\ dl.log = <<"GetFile", "Write">>

\* The download request names a row of the files table whose blob is not
\* on the disk.
OrphanRow(id) == id \in Ids /\ files[id].exists /\ ~disk[id].exists

\* The answer to a download that ended at os.Open of an orphan row.
OrphanAnswer(code, statusCode) ==
    (dl.pc = "named" /\ dl'.pc # "named" /\ OrphanRow(dl.rq.id))
    => /\ dl'.pc = "done"
       /\ dl'.w.status = statusCode
       /\ dl'.w.body = <<Chunk("error", code, <<>>, <<>>)>>
       /\ dl'.file = NoId /\ dl'.out = <<>>

\* C28 as stated: a download for an id whose row exists but whose blob is
\* missing ends with a NotFound error response (status 404).
C28_OrphanNotFound == [][OrphanAnswer("NotFound", StatusNotFound)]_vars

\* C28 amended: a download for an id whose row exists but whose blob is
\* missing ends, in the step that opens the file, with an InternalApiError
\* error response of status 503; it reads no blob and reports no success.
C28_OrphanUnavailable ==
    [][OrphanAnswer("InternalApiError", StatusServiceUnavailable)]_vars

\* C28 witness: a download of an orphan row was answered.
C28_Witness ==
    /\ dl.pc = "done" /\ OrphanRow(dl.rq.id)
    /\ dl.log = <<"GetFile", "DecryptFileName", "Open", "Write">>
    /\ dl.w.status = StatusServiceUnavailable

\* The download has read a damaged blob, with no failure of a collaborator,
\* and DecryptAndCopy has refused it: the tag did not match, or the frame
\* ended before its dek_id.
RefusedDamaged ==
    /\ rot # NoRot /\ dl.pc = "done" /\ dl.file = rot.name /\ ~dl.fault
    /\ dl.read = disk[rot.name].data
    /\ dl.err \in {"open", EOF}

\* C29: a download whose blob fails the AEAD authentication, or is a short
\* or malformed frame, is answered with status 503 and never with a
\* success status.
C29_CorruptedAnswered503 ==
    RefusedDamaged => dl.w.status = StatusServiceUnavailable

\* The positions of a call in the download's record of its calls.
At(call) == {i \in 1..Len(dl.log) : dl.log[i] = call}

\* C30: within one download db.GetFile returns before storage_dir/id is
\* opened, and the file is opened before anything is written to the
\* response: every os.Open follows a GetFile and precedes every Write, and
\* a response that carries a file part comes from a download that opened
\* the file.
C30_ReadOpenWrite ==
    /\ \A o \in At("Open") :
          /\ \E g \in At("GetFile") : g < o
          /\ \A w \in At("Write") : o < w
    /\ (\E i \in 1..Len(dl.w.body) : dl.w.body[i].kind \in {"part", "data"})
       => /\ At("Open") # {}
          /\ dl.pc = "done" /\ dl.file = dl.rq.id

\* C30 witness: a download has sent the content of a file.
C30_Witness ==
    /\ dl.pc = "done" /\ dl.err = Nil
    /\ dl.log = <<"GetFile", "DecryptFileName", "Open", "Write", "GetDEC",
                  "MakeDecryptRequest", "Write", "Write">>
    /\ \E i \in 1..Len(dl.w.body) : dl.w.body[i].kind = "data" /\ dl.w.body[i].bytes # <<>>

(***************************************************************************)
(* Resources.                                                              *)
(***************************************************************************)
\* The upload holds the handle os.Create returned from line 166 until the
\* inner function returns, where the deferred file.Close() runs.
HoldsFile(t) == pc[t] \in {"getnewest", "mint", "seal", "sealed"}

\* The download holds the handle of os.Open until the handler returns.
DlHoldsFile == dl.pc = "opened"

\* C31: when a request has been answered, every resource it opened has
\* been released, the KMS response bodies of its calls included, also when
\* the KMS answered another status than 200.
C31_AllReleased ==
    /\ \A t \in Tasks :
          pc[t] = "done" => ~HoldsFile(t) /\ calls[t].bodies = 0
    /\ dl.pc = "done" => ~DlHoldsFile /\ dl.bodies = 0

(***************************************************************************)
(* Nonces.                                                                 *)
(***************************************************************************)
\* Uploads one after the other, the random source free to return either
\* of two values to each call of Encrypt.
NextNonce ==
    \/ \E t \in Tasks : Quiet(t) /\ Step(t, Pair)
    \/ Tick

SpecNonce == Init /\ [][NextNonce]_vars

\* The encryptions done so far: the requests whose Encrypt called gcm.Seal.
Sealers == {t \in Tasks : calls[t].used # <<>>}

\* C32 as stated: no two encryptions have used the same key with the same
\* nonce.
C32_NoPairTwice ==
    \A t, u \in Sealers : t # u => calls[t].used # calls[u].used

\* C32 amended: each Encrypt draws one nonce of 12 bytes from the random
\* source, seals with the drawn value and writes that value as bytes 8..19
\* of its frame; so two encryptions have used the same key with the same
\* nonce only when the random source returned the same value to both.
C32_NonceIsTheDraw ==
    /\ \A t \in Sealers :
          /\ Len(calls[t].drawn) = NonceSize
          /\ calls[t].used[2] = calls[t].drawn
          /\ pc[t] = "sealed" =>
                /\ enc[t].writes[2] = calls[t].drawn
                /\ SubSeq(disk[up[t].path].data, 9, 8 + NonceSize) = calls[t].drawn
                /\ Cardinality({i \in 1..Len(enc[t].draws) :
                                   enc[t].draws[i] = NonceSize}) = 1
    /\ \A t, u \in Sealers :
          calls[t].drawn # calls[u].drawn => calls[t].used # calls[u].used

\* C32 witness: two uploads sealed under the same key, with the two values
\* of the random source.
C32_Witness ==
    \E t, u \in Sealers :
        /\ calls[t].used[1] = calls[u].used[1]
        /\ calls[t].drawn # calls[u].drawn
        /\ pc[t] = "sealed" /\ pc[u] = "done" /\ status[u] = StatusCreated

(***************************************************************************)
(* The length of the file name.                                            *)
(***************************************************************************)
\* One request, among them one with a file name of 256 bytes.
NextName ==
    \/ Step(First, Long)
    \/ Tick

SpecName == Init /\ [][NextName]_vars

\* C33: an upload whose file name is longer than 255 bytes is turned away
\* with status 422 before a row is added to the files table: it has made no
\* add_file call and no row is its work.
C33_LongNameRejected ==
    \A t \in Tasks :
        Len(FileName(calls[t].rq)) > MaxFileNameLen
        => /\ calls[t].id = NoId
           /\ \A x \in Ids : files[x].by # t
           /\ pc[t] = "done" /\ status[t] = StatusUnprocessableEntity

(***************************************************************************)
(* Failures inside EncryptAndCopy and DecryptAndCopy.                      *)
(***************************************************************************)
\* C34: when GetNewestDEC fails with an error that is not the no-rows
\* error, EncryptAndCopy returns that error and has drawn no key, called
\* the KMS neither to wrap nor to unwrap, added no DEK row and written
\* nothing.
C34_NewestErrorStops ==
    \A t \in Tasks :
        enc[t].newest = "db"
        => /\ enc[t].err = "db"
           /\ enc[t].draws = <<>>
           /\ enc[t].kmsEnc = <<>> /\ enc[t].kmsDec = <<>>
           /\ enc[t].addDec = <<>>
           /\ enc[t].writes = <<>>

\* The frame names a DEK row whose value the KMS unwraps, and its last 16
\* bytes are the tag of the bytes between the nonce and the tag under that
\* key and the frame's nonce.
Authentic(data) ==
    /\ Len(data) >= 8 + NonceSize + TagSize
    /\ LET got == GetDEC(decs, Uint64(SubSeq(data, 1, 8)))
           key == MakeDecryptRequest(got.dec.value)
           nonce == SubSeq(data, 9, 8 + NonceSize)
           body == SubSeq(data, 9 + NonceSize, Len(data) - TagSize)
           tag == SubSeq(data, Len(data) - TagSize + 1, Len(data))
       IN  /\ got.err = Nil /\ key.err = Nil
           /\ tag = GcmTag(key.plaintext, nonce, body)

\* C35: DecryptAndCopy writes plaintext only after the whole ciphertext has
\* been authenticated: when it fails at the read of the frame, the DEK
\* lookup, the KMS or the AEAD open it has written no byte, and what it has
\* written comes from a frame whose tag matched.
C35_WritesAfterOpen ==
    (dl.pc = "done" /\ dl.file # NoId)
    => /\ dl.err \notin {Nil, "write"}
          => /\ dl.out = <<>>
             /\ \A i \in 1..Len(dl.w.body) : dl.w.body[i].kind # "data"
       /\ (dl.out # <<>> \/ \E i \in 1..Len(dl.w.body) : dl.w.body[i].kind = "data")
          => dl.err = Nil /\ Authentic(dl.read)

\* C35 witness: the open of a damaged frame that carries ciphertext failed.
C35_Witness ==
    /\ RefusedDamaged /\ dl.err = "open"
    /\ Len(dl.read) > 8 + NonceSize + TagSize

\* C36: when EncryptAndCopy fails for another reason than a failed write
\* (DEK store, random source, KMS, read of the plaintext, cipher), it has
\* written no byte of the frame; and when the draw of the key or the KMS
\* wrap fails, it has added no DEK row.
C36_FailsBeforeWriting ==
    [][\A t \in Tasks :
          (pc[t] \in {"getnewest", "mint", "seal"} /\ pc'[t] = "failed")
          => /\ enc'[t].err # "write"
                => /\ enc'[t].writes = <<>>
                   /\ disk' = disk
             /\ (pc[t] = "mint" /\ enc'[t].err \in {"rand", "kms"})
                => /\ decs' = decs
                   /\ enc'[t].addDec = <<>>]_vars

\* C36 witness: the KMS wrap of a freshly drawn key has failed.
C36_Witness ==
    \E t \in Tasks :
        /\ pc[t] = "failed" /\ enc[t].err = "kms"
        /\ enc[t].draws = <<KeySize>> /\ Len(enc[t].kmsEnc) = 1
        /\ enc[t].kmsDec = <<>>

(***************************************************************************)
(* The limiter's counter.                                                  *)
(***************************************************************************)
\* C37: for a limitedReader created with limit S, after any Reads the
\* bytes delivered and the counter add up to S and the counter is not
\* negative; and a Read that finds the counter at 0 returns no byte and the
\* size-exceeded error and leaves the underlying reader as it was.
C37_CounterAccounts ==
    /\ [](/\ Len(lim.out) + lim.lr.remaing = lim.limit
          /\ lim.lr.remaing >= 0)
    /\ [][(lim.lr.remaing = 0 /\ lim'.reads = lim.reads + 1)
          => /\ lim'.data = <<>> /\ lim'.out = lim.out
             /\ lim'.err = "tooBig"
             /\ lim'.lr = lim.lr]_vars

\* C37 witness: the counter has reached 0 on a stream that holds more, and
\* two Reads after that have returned the size-exceeded error.
C37_Witness ==
    /\ lim.lr.remaing = 0 /\ lim.limit = MaxUploadSize
    /\ lim.lr.reader.data # <<>>
    /\ lim.err = "tooBig" /\ lim.reads >= 3
    /\ lim.pre = lim.limit /\ Len(lim.out) = lim.limit

(***************************************************************************)
(* A download served while the upload of its id is being served.           *)
(***************************************************************************)
NextRace ==
    \/ Step(First, Narrow)
    \/ DlReceive({GoodDlRequest(id) : id \in Ids})
    \/ DlOpen
    \/ DlCopy

SpecRace == Init /\ [][NextRace]_vars

\* The plaintext upload t read from its file part.
Uploaded(t) == IF pc[t] = "done" THEN calls[t].body ELSE enc[t].body

\* C38: a download of an id that was served while the upload of that id
\* had inserted its row and had not returned (blob absent, empty or partly
\* written, or being compensated) does not answer success with anything
\* but the uploaded file: it answers the file name and the plaintext of the
\* upload, or an error status.
C38_RacingDownload ==
    (dl.pc = "done" /\ dl.raced /\ ~dl.fault)
    => \A t \in Tasks :
          calls[t].id = dl.rq.id
          => \/ dl.w.status \notin {0, StatusOK, StatusCreated}
             \/ dl.w = FileAnswer(FileName(calls[t].rq), Uploaded(t))

(***************************************************************************)
(* Termination of FileUpload.                                              *)
(***************************************************************************)
\* A step of request t that is not another turn of the id-allocation loop
\* and not a step of the encryption.
Forward(t) ==
    /\ Quiet(t)
    /\ \/ AddFile(t) \/ Create(t) \/ GetNewest(t)
       \/ Commit(t) \/ Comp1(t) \/ Comp2(t)
    /\ pc'[t] # pc[t]

\* The calls of EncryptAndCopy after GetNewestDEC return (the key draw, the
\* KMS, AddDEC, sep.Encrypt and the writes of the frame): Mint and Seal have
\* an outcome in every state where the handler is about to take them, and
\* each outcome leaves that place, so a request is not there for ever.
EncryptionReturns(t) == []<>(pc[t] \notin {"mint", "seal"})

NextLive == \E t \in Tasks : Quiet(t) /\ Step(t, Narrow)

\* Every call of the handler returns, and db.AddFile does not report a
\* taken generatedName for ever: a request that can take a step forward
\* takes one.  No request is required to arrive.
SpecLive ==
    /\ Init /\ [][NextLive]_vars
    /\ \A t \in Tasks : WF_vars(Forward(t)) /\ EncryptionReturns(t)

\* How far the handler has come.
Rank(p) ==
    CASE p = "idle" -> 0
      [] p = "alloc" -> 1
      [] p = "create" -> 2
      [] p = "getnewest" -> 3
      [] p = "mint" -> 4
      [] p = "seal" -> 5
      [] p = "sealed" -> 6
      [] p = "failed" -> 7
      [] p = "comp2" -> 8
      [] p = "done" -> 9

\* C39: every upload request the handler has begun to serve ends, having
\* written one response status and no second one; only the id-allocation
\* loop takes a request through the same place again.
C39_UploadTerminates ==
    /\ \A t \in Tasks : (pc[t] # "idle") ~> (pc[t] = "done")
    /\ [](\A t \in Tasks : pc[t] = "done" => status[t] # 0)
    /\ [][\A t \in Tasks :
             /\ status'[t] # status[t] => status[t] = 0
             /\ Rank(pc'[t]) >= Rank(pc[t])
             /\ (pc'[t] = pc[t] /\ <<up[t], enc[t], status[t], calls[t]>>
                                    # <<up'[t], enc'[t], status'[t], calls'[t]>>)
                => pc[t] = "alloc"]_vars

\* C39 witness: a request is in the id-allocation loop, db.AddFile having
\* reported that the generatedName it drew is taken.
C39_Witness ==
    \E t \in Tasks :
        /\ pc[t] = "alloc" /\ up[t].strId # NoId
        /\ files[up[t].strId].exists /\ files[up[t].strId].by # t

====
